---- MODULE Spec2Model ----
(***************************************************************************)
(* State-machine model of the SolarWinds chat service: the background sync *)
(* service and its Redis state manager (app/services/sync_service.py), the *)
(* knowledge-provider client (app/services/solarwinds.py), the embedding   *)
(* cache (app/services/embedding.py), the indexing write paths             *)
(* (app/services/indexing_service.py) and the chat endpoint                *)
(* (app/api/v1/chat.py).                                                   *)
(***************************************************************************)
EXTENDS Integers, Sequences, FiniteSets, TLC

(***************************************************************************)
(* Bounds of the model.                                                    *)
(***************************************************************************)
NumFirstRequests == 2 \* requests that reach the uninitialized indexing service
NumLockCalls == 2   \* trigger_sync calls contending for the lock
LockClockStep == 1800 \* seconds between two readings of the server clock
MaxLockClock == 7200  \* last reading of the server clock in a lock scenario
NumKeys == 3        \* distinct (model, text) pairs offered to the embedding cache
CacheMaxSize == 2   \* max_size of the EmbeddingCache under test
MaxCacheClock == 2  \* readings of time.time() during a cache scenario
MaxAnswerLen == 2   \* characters of text an LLM reply carries
MaxElapsed == 2     \* milliseconds a chat request takes
MaxBatch == 2       \* records in one indexing batch or one provider fetch
NumCallers == 3     \* concurrent _make_request calls on one client
MaxRequests == 2    \* RateLimiter.max_requests (solarwinds_rate_limit)
ClockStep == 20     \* seconds the clock advances in one step
MaxClock == 80      \* last clock reading of a client scenario
NumBatchTexts == 2  \* distinct texts given to get_embeddings_batch
MaxTexts == 2       \* length of the list given to get_embeddings_batch
MaxSliceSize == 2   \* batch_size of get_embeddings_batch
MaxRecords == 4     \* records the provider holds
MaxBatchSize == 3   \* batch_size of fetch_all_solutions
MaxHistory == 3     \* calls of initialize / cleanup remembered
MaxVersion == 2     \* versions of one solution (content and metadata)
MaxAdd == 2         \* records in one add_solutions_batch call
NumTexts == 1       \* distinct non-empty texts handed to get_embedding
MaxEmbClock == 1    \* clock readings during an embedding scenario
MaxStamp == 1       \* timestamps handed to the state manager
NumCalls == 2       \* trigger_sync invocations in flight
MaxTime == 1        \* ticks of the wall clock during a sync scenario
MaxFetched == 1     \* records a provider fetch returns

Procs == 1..NumCalls

VARIABLES
    \* ---- sync service / Redis state (sync_service.py) ----
    cfg,        \* the Settings the process was started with
    pc,         \* position of each trigger_sync call
    force,      \* the force argument of each call
    lock,       \* solarwinds:sync_lock: 0 = key absent, p = set by call p
    stats,      \* solarwinds:sync_stats hash
    lastSync,   \* solarwinds:sync_state last_sync_time (-1 = absent)
    now,        \* datetime.utcnow()
    startT,     \* sync_start_time of each call
    fetched,    \* per call: records fetched (n) and records normalized (k)
    err,        \* str(e) of the exception a call caught
    pend,       \* the dict a call's return statement has built
    res,        \* the dict a call has returned
    held,       \* history: the call's acquire_sync_lock returned True
    wrote,      \* history: which statistics the call wrote
    \* ---- EmbeddingCache (embedding.py) ----
    cache,      \* cache and timestamps dicts, one entry per key, in dict order
    ctime,      \* time.time()
    evicted,    \* history: the key the last set() deleted (0 = none)
    \* ---- POST /chat (api/v1/chat.py) ----
    chatReq,    \* the last request: query length, retrieval and LLM outcomes
    chatResp,   \* the HTTP response it got
    \* ---- IndexingService and the vector index (indexing_service.py) ----
    ixInit,     \* IndexingService._initialized
    ixDocs,     \* ids of the documents in the vector collection
    ixCall,     \* the last write operation and its arguments
    ixOut,      \* what it returned or raised, and the ids it wrote
    \* ---- SolarWindsClient and its RateLimiter (solarwinds.py) ----
    clock,      \* time.time(), in seconds
    configured, \* self.client is set (API key and base URL present)
    requests,   \* RateLimiter.requests: the permit timestamps kept
    cpc,        \* where each _make_request call stands
    attempts,   \* the attempt number the retry wrapper is at
    wakeAt,     \* when a sleeping acquire() may resume
    outcome,    \* what the last attempt's HTTP exchange gave
    result,     \* what the call gave its caller
    granted,    \* history: every timestamp acquire() recorded
    blockedBy,  \* history: the oldest permit when the call found the limit reached
    grantAt,    \* history: when the call's acquire() recorded its timestamp
    \* ---- SyncStateManager with an unreliable store (sync_service.py) ----
    mgrClient,  \* self.redis_client is set
    mgrUp,      \* the store answers commands
    mgrLock,    \* the lock key in the store
    mgrLast,    \* the last_sync_time field in the store
    mgrStats,   \* the statistics hash in the store
    mgrCall,    \* the last method called and what the manager and store were then
    mgrRet,     \* what it returned, and whether it raised or wrote
    \* ---- EmbeddingService.get_embedding (embedding.py) ----
    embPrimary, \* self.primary_provider
    embCache,   \* self.cache
    embClock,   \* time.time()
    embCall,    \* the last get_embedding call and what the providers did
    embRet,     \* the vector it returned or the error it raised
    embPut,     \* history: the cache key it wrote (0 = none) and whether the cache changed
    \* ---- HTTP layer: solutions and metrics routes, exception handlers ----
    debug,      \* settings.debug
    apiReady,   \* indexing_service._initialized, as the routes find it
    apiReq,     \* the last request and what the services did for it
    apiResp,    \* the HTTP response: status, body layout, exception text in the body
    \* ---- VectorStoreService over one Chroma collection ----
    vsDocs,     \* the collection: id -> version of the stored document (0 = none)
    vsCall,     \* the last operation and its arguments
    vsRet,      \* whether it raised; for get_solution_by_id the version returned
    \* ---- application lifespan (main.py) ----
    lifePc,     \* the step lifespan() runs next
    lifeLog,    \* the steps attempted so far, in order, each with whether it raised
    \* ---- SyncService start() / stop() and the trigger_sync tasks in flight ----
    svcRunning, \* SyncService.is_running
    svcClient,  \* state_manager.redis_client is set
    svcLock,    \* the task whose acquire created the lock key in the store ("free" = none)
    svcTask,    \* per origin of a trigger_sync call: its position
    svcStop,    \* position of stop(): idle, disconnecting (after shutdown), returned
    \* ---- IndexingService.initialize / cleanup and its two dependencies ----
    bootState,  \* the _initialized flags, the loaded model, the collection, the cache
    bootHist,   \* the last calls: operation, state before and after, dependency calls made
    \* ---- SolarWindsService.fetch_all_solutions ----
    faPc,       \* idle, loop (inside while True), returned, raised
    faArgs,     \* the provider's record count, whether it reports totalCount, batch_size
    faOffset,   \* offset
    faAll,      \* all_solutions
    faRequests, \* get_solutions calls made by this call
    \* ---- EmbeddingService.get_embeddings_batch ----
    ebPrimary,  \* primary_provider of the initialized service
    ebCache,    \* the embedding cache
    ebCall,     \* the last call: texts, use_cache, batch_size
    ebRet,      \* what it returned or raised, and what it sent to the providers
    \* ---- LLMService / OpenRouterProvider (llm.py) ----
    llmKey,     \* settings.openrouter_api_key is set
    llmProvider,\* LLMService.provider is not None
    llmClient,  \* OpenRouterProvider.client is not None
    llmStream,  \* the stream argument of the call in flight
    llmPc,      \* idle, attempt, sleep, returned, raised
    llmAttempt, \* tenacity's attempt_number of the call in flight
    llmSlept,   \* seconds the call has waited between attempts
    llmLog,     \* what each attempt of the call raised ("" = it returned)
    llmErr,     \* the exception that reached the caller of LLMService.generate_response
    \* ---- the sync lock and its expiry (sync_service.py 82-115) ----
    lkNow,      \* seconds on the Redis server's clock
    lkKey,      \* solarwinds:sync_lock: the call whose SET created it (0 = absent) and its expiry time
    lkForce,    \* the force argument of each call
    lkPc,       \* position of each trigger_sync call: check, acquire, body, done
    lkDel,      \* history: the last DELETE of the key: the call that issued it, the call whose key it removed
    \* ---- concurrent first use of the indexing service (indexing_service.py 23-42) ----
    lzIxInit,   \* IndexingService._initialized
    lzEmbInit,  \* EmbeddingService._initialized
    lzModel,    \* LocalEmbeddingProvider.model is loaded
    lzStore,    \* VectorStoreService: none, client (client set), collection (both set)
    lzPc,       \* position of each search_solutions request
    lzBodies,   \* times the body of IndexingService.initialize was entered
    lzLoads,    \* times LocalEmbeddingProvider.initialize loaded the model
    lzConnects  \* times VectorStoreService.connect was started

syncVars == <<cfg, pc, force, lock, stats, lastSync, now, startT, fetched, err, pend,
              res, held, wrote>>
cacheVars == <<cache, ctime, evicted>>
chatVars == <<chatReq, chatResp>>
ixVars == <<ixInit, ixDocs, ixCall, ixOut>>
clientVars == <<clock, configured, requests, cpc, attempts, wakeAt, outcome,
                result, granted, blockedBy, grantAt>>
mgrVars == <<mgrClient, mgrUp, mgrLock, mgrLast, mgrStats, mgrCall, mgrRet>>
embVars == <<embPrimary, embCache, embClock, embCall, embRet, embPut>>
apiVars == <<debug, apiReady, apiReq, apiResp>>
vsVars == <<vsDocs, vsCall, vsRet>>
lifeVars == <<lifePc, lifeLog>>
svcVars == <<svcRunning, svcClient, svcLock, svcTask, svcStop>>
bootVars == <<bootState, bootHist>>
faVars == <<faPc, faArgs, faOffset, faAll, faRequests>>
ebVars == <<ebPrimary, ebCache, ebCall, ebRet>>
llmVars == <<llmKey, llmProvider, llmClient, llmStream, llmPc, llmAttempt, llmSlept, llmLog, llmErr>>
lkVars == <<lkNow, lkKey, lkForce, lkPc, lkDel>>
lzVars == <<lzIxInit, lzEmbInit, lzModel, lzStore, lzPc, lzBodies, lzLoads, lzConnects>>
nonSyncVars == <<cacheVars, chatVars, ixVars, clientVars, mgrVars, embVars, apiVars, vsVars, lifeVars, svcVars, bootVars, faVars, ebVars, llmVars, lkVars, lzVars>>
nonCacheVars == <<syncVars, chatVars, ixVars, clientVars, mgrVars, embVars, apiVars, vsVars, lifeVars, svcVars, bootVars, faVars, ebVars, llmVars, lkVars, lzVars>>
nonChatVars == <<syncVars, cacheVars, ixVars, clientVars, mgrVars, embVars, apiVars, vsVars, lifeVars, svcVars, bootVars, faVars, ebVars, llmVars, lkVars, lzVars>>
nonIxVars == <<syncVars, cacheVars, chatVars, clientVars, mgrVars, embVars, apiVars, vsVars, lifeVars, svcVars, bootVars, faVars, ebVars, llmVars, lkVars, lzVars>>
nonClientVars == <<syncVars, cacheVars, chatVars, ixVars, mgrVars, embVars, apiVars, vsVars, lifeVars, svcVars, bootVars, faVars, ebVars, llmVars, lkVars, lzVars>>
nonMgrVars == <<syncVars, cacheVars, chatVars, ixVars, clientVars, embVars, apiVars, vsVars, lifeVars, svcVars, bootVars, faVars, ebVars, llmVars, lkVars, lzVars>>
nonEmbVars == <<syncVars, cacheVars, chatVars, ixVars, clientVars, mgrVars, apiVars, vsVars, lifeVars, svcVars, bootVars, faVars, ebVars, llmVars, lkVars, lzVars>>
nonApiVars == <<syncVars, cacheVars, chatVars, ixVars, clientVars, mgrVars, embVars, vsVars, lifeVars, svcVars, bootVars, faVars, ebVars, llmVars, lkVars, lzVars>>
nonVsVars == <<syncVars, cacheVars, chatVars, ixVars, clientVars, mgrVars, embVars, apiVars, lifeVars, svcVars, bootVars, faVars, ebVars, llmVars, lkVars, lzVars>>
nonLifeVars == <<syncVars, cacheVars, chatVars, ixVars, clientVars, mgrVars, embVars, apiVars, vsVars, svcVars, bootVars, faVars, ebVars, llmVars, lkVars, lzVars>>
nonSvcVars == <<syncVars, cacheVars, chatVars, ixVars, clientVars, mgrVars, embVars, apiVars, vsVars, lifeVars, bootVars, faVars, ebVars, llmVars, lkVars, lzVars>>
nonBootVars == <<syncVars, cacheVars, chatVars, ixVars, clientVars, mgrVars, embVars, apiVars, vsVars, lifeVars, svcVars, faVars, ebVars, llmVars, lkVars, lzVars>>
nonFaVars == <<syncVars, cacheVars, chatVars, ixVars, clientVars, mgrVars, embVars, apiVars, vsVars, lifeVars, svcVars, bootVars, ebVars, llmVars, lkVars, lzVars>>
nonEbVars == <<syncVars, cacheVars, chatVars, ixVars, clientVars, mgrVars, embVars, apiVars, vsVars, lifeVars, svcVars, bootVars, faVars, llmVars, lkVars, lzVars>>
nonLlmVars == <<syncVars, cacheVars, chatVars, ixVars, clientVars, mgrVars, embVars, apiVars, vsVars, lifeVars, svcVars, bootVars, faVars, ebVars, lkVars, lzVars>>
nonLkVars == <<syncVars, cacheVars, chatVars, ixVars, clientVars, mgrVars, embVars, apiVars, vsVars, lifeVars, svcVars, bootVars, faVars, ebVars, llmVars, lzVars>>
nonLzVars == <<syncVars, cacheVars, chatVars, ixVars, clientVars, mgrVars, embVars, apiVars, vsVars, lifeVars, svcVars, bootVars, faVars, ebVars, llmVars, lkVars>>
vars == <<syncVars, cacheVars, chatVars, ixVars, clientVars, mgrVars, embVars, apiVars, vsVars, lifeVars, svcVars, bootVars, faVars, ebVars, llmVars, lkVars, lzVars>>

(***************************************************************************)
(* EmbeddingCache (embedding.py 20-54).  _get_cache_key is the MD5 of      *)
(* "model:text"; a key of the model stands for one digest.                 *)
(***************************************************************************)
CacheKeys == 1..NumKeys
Vectors == {"v1", "v2"}

KeysOf(c) == {c[i].key : i \in DOMAIN c}
IndexOfKey(c, k) == CHOOSE i \in DOMAIN c : c[i].key = k
TsOf(c, k) == c[IndexOfKey(c, k)].ts

\* min(self.timestamps.keys(), key=self.timestamps.get): the first key, in
\* dict order, among those of least timestamp
NewestKey(c) ==
    c[CHOOSE i \in DOMAIN c :
        /\ \A j \in DOMAIN c : c[j].ts <= c[i].ts
        /\ \A j \in DOMAIN c : (c[j].ts = c[i].ts) => i <= j].key
OldestKey(c) ==
    c[CHOOSE i \in DOMAIN c :
        /\ \A j \in DOMAIN c : c[i].ts <= c[j].ts
        /\ \A j \in DOMAIN c : (c[j].ts = c[i].ts) => i <= j].key

\* del self.cache[k]; del self.timestamps[k]
DelKey(c, k) == SelectSeq(c, LAMBDA e : e.key # k)

\* self.cache[k] = v; self.timestamps[k] = t: a present key keeps its place
PutKey(c, k, v, t) ==
    IF k \in KeysOf(c)
    THEN [i \in DOMAIN c |-> IF c[i].key = k THEN [key |-> k, ts |-> t, emb |-> v] ELSE c[i]]
    ELSE Append(c, [key |-> k, ts |-> t, emb |-> v])

\* the full test of set()
CacheIsFull(c) == Len(c) >= CacheMaxSize

\* EmbeddingCache.set
CacheSet(c, k, v, t) ==
    PutKey(IF CacheIsFull(c) THEN DelKey(c, OldestKey(c)) ELSE c, k, v, t)

CacheStart ==
    /\ cache = <<>>
    /\ ctime = 0
    /\ evicted = 0

CacheSetOp ==
    /\ \E k \in CacheKeys, v \in Vectors :
         /\ cache' = CacheSet(cache, k, v, ctime)
         /\ evicted' = IF CacheIsFull(cache) THEN OldestKey(cache) ELSE 0
    /\ UNCHANGED ctime
    /\ UNCHANGED nonCacheVars

\* EmbeddingCache.clear
CacheClearOp ==
    /\ cache' = <<>>
    /\ evicted' = 0
    /\ UNCHANGED ctime
    /\ UNCHANGED nonCacheVars

\* the clock reads later
CacheTick ==
    /\ ctime < MaxCacheClock
    /\ ctime' = ctime + 1
    /\ UNCHANGED <<cache, evicted>>
    /\ UNCHANGED nonCacheVars

CacheNext == CacheSetOp \/ CacheClearOp \/ CacheTick

(***************************************************************************)
(* POST /chat, full variant (api/v1/chat.py), with the ChatRequest and     *)
(* ChatResponse schemas and the LLM providers' return values (llm.py).     *)
(***************************************************************************)
QueryMinLength == 1
QueryMaxLength == 1000
TopK == 4

QueryLengths == {0, 1, 2, QueryMaxLength, QueryMaxLength + 1}
\* indexing_service.search_solutions: it raises, or returns up to top_k sources
Retrievals == {[ok |-> FALSE, n |-> 0]} \cup {[ok |-> TRUE, n |-> n] : n \in 0..TopK}
LLMProviders == {"ollama", "openrouter"}
\* what the provider's backend answers: an error, a reply without text, or
\* a reply whose text has len characters
Replies == {[kind |-> "raise", len |-> 0], [kind |-> "missing", len |-> 0]}
           \cup {[kind |-> "text", len |-> n] : n \in 0..MaxAnswerLen}

Text(kind, n) == [kind |-> kind, len |-> n]
NoneValue == Text("None", 0)

\* ChatRequest: Field(min_length=1, max_length=1000)
ChatRequestValid(qlen) == qlen >= QueryMinLength /\ qlen <= QueryMaxLength

\* OLLAMAProvider.generate_response returns response.get('response', '');
\* OpenRouterProvider.generate_response returns choices[0].message.content
ProviderReturns(prov, reply) ==
    IF reply.kind = "missing"
    THEN IF prov = "ollama" THEN Text("llm", 0) ELSE NoneValue
    ELSE Text("llm", reply.len)

\* generate_fallback_response: one of two non-empty templates
FallbackResponse(nsrc) ==
    IF nsrc = 0 THEN Text("fallback_no_sources", 1) ELSE Text("fallback_sources", 1)

\* generate_rag_response: the LLM's return value as it is, the fallback
\* template when the LLM call raises
GenerateRagResponse(prov, reply, nsrc) ==
    IF reply.kind = "raise" THEN FallbackResponse(nsrc) ELSE ProviderReturns(prov, reply)

\* the except branch's ChatResponse
ApologyResponse(ms) ==
    [code |-> 200, answer |-> Text("apology", 1), sources |-> 0,
     query_id |-> "uuid4", response_time_ms |-> ms]

\* the chat handler; ChatResponse(answer=None) fails validation inside the try
ChatHandler(qlen, retr, prov, reply, ms) ==
    IF ~ChatRequestValid(qlen)
    THEN [code |-> 422, answer |-> NoneValue, sources |-> 0,
          query_id |-> "", response_time_ms |-> 0]
    ELSE IF ~retr.ok THEN ApologyResponse(ms)
    ELSE LET answer == GenerateRagResponse(prov, reply, retr.n) IN
         IF answer = NoneValue THEN ApologyResponse(ms)
         ELSE [code |-> 200, answer |-> answer, sources |-> retr.n,
               query_id |-> "uuid4", response_time_ms |-> ms]

NoRequest == [sent |-> FALSE, qlen |-> 0, blank |-> TRUE, searched |-> FALSE,
              retr |-> [ok |-> TRUE, n |-> 0],
              prov |-> "ollama", reply |-> [kind |-> "raise", len |-> 0]]
NoResponse == [code |-> 0, answer |-> NoneValue, sources |-> 0,
               query_id |-> "", response_time_ms |-> 0]

ChatStart ==
    /\ chatReq = NoRequest
    /\ chatResp = NoResponse

ChatPost ==
    /\ \E qlen \in QueryLengths, blank \in BOOLEAN, retr \in Retrievals,
          prov \in LLMProviders, reply \in Replies, ms \in 0..MaxElapsed :
         \* blank: the query holds nothing but whitespace; an empty one does
         /\ qlen = 0 => blank
         \* searched: the handler body ran, so search_solutions was called
         /\ chatReq' = [sent |-> TRUE, qlen |-> qlen, blank |-> blank,
                      searched |-> ChatRequestValid(qlen),
                      retr |-> retr, prov |-> prov, reply |-> reply]
         /\ chatResp' = ChatHandler(qlen, retr, prov, reply, ms)
    /\ UNCHANGED nonChatVars

ChatNext == ChatPost

(***************************************************************************)
(* IndexingService write paths (indexing_service.py 54-293), the batch     *)
(* text processing they call (text_processing.py 286-343) and the record   *)
(* normalization of the sync (solarwinds.py 300-344, sync_service.py       *)
(* 308-331).                                                               *)
(***************************************************************************)
ProviderIds == {"s1", "s2"}
NoId == "absent"

\* a fetched record: its id and solutionId fields (NoId when the field is
\* absent) and its content: "good", or "null" (a field holds null, which
\* SolutionRecord rejects)
RawRecords == [id : {"s1", NoId}, solutionId : {"s2", NoId},
               content : {"good", "null"}]
\* a SolutionRecord: its id and its content: "good", "short" (fails
\* validate_content) or "raises" (its processing pipeline raises)
Records == [id : ProviderIds \cup {"None"}, content : {"good", "short", "raises"}]

\* outcomes of the collaborators during one call
Envs == [init : BOOLEAN, embed : BOOLEAN, store : BOOLEAN]

\* str(solution_id)
Str(v) == IF v = NoId THEN "None" ELSE v

\* solution_data.get("id") or solution_data.get("solutionId")
SolutionIdOf(raw) == IF raw.id # NoId THEN raw.id ELSE raw.solutionId

\* parse_solution_to_record raises when SolutionRecord rejects a field
ParseRaises(raw) == raw.content = "null"
ParseSolutionToRecord(raw) == [id |-> Str(SolutionIdOf(raw)), content |-> raw.content]

\* trigger_sync lines 310-317: the records whose parse did not raise
RECURSIVE ParseAll(_)
ParseAll(raws) ==
    IF raws = <<>> THEN <<>>
    ELSE LET rest == ParseAll(Tail(raws)) IN
         IF ParseRaises(Head(raws)) THEN rest
         ELSE <<ParseSolutionToRecord(Head(raws))>> \o rest

IdsOf(recs) == {recs[i].id : i \in DOMAIN recs}
Count(recs, c) == Cardinality({i \in DOMAIN recs : recs[i].content = c})

NoCounts == [indexed |-> 0, failed |-> 0, skipped |-> 0]
\* a bool-returning path's outcome, a counts-returning path's outcome, and an
\* exception reaching the caller
Returns(v, ids) == [raised |-> "", ok |-> v, counts |-> NoCounts, ids |-> ids]
ReturnsCounts(c, ids) == [raised |-> "", ok |-> TRUE, counts |-> c, ids |-> ids]
Raises(e) == [raised |-> e, ok |-> FALSE, counts |-> NoCounts, ids |-> {}]

\* "if not self._initialized: await self.initialize()" stands before the try
\* block of every write path: a failing initialize() reaches the caller
LazyInit(init, env, body) ==
    IF init \/ env.init THEN body
    ELSE Raises("VectorStoreError")

\* index_solution
IndexSolution(init, rec, env) ==
    LazyInit(init, env,
        IF rec.content = "good" /\ env.embed /\ env.store
        THEN Returns(TRUE, {rec.id})
        ELSE Returns(FALSE, {}))

\* update_solution_index
UpdateSolutionIndex(init, rec, env) ==
    LazyInit(init, env,
        IF rec.content = "good" /\ env.embed /\ env.store
        THEN Returns(TRUE, {rec.id})
        ELSE Returns(FALSE, {}))

\* remove_solution_from_index
RemoveSolutionFromIndex(init, id, env) ==
    LazyInit(init, env, IF env.store THEN Returns(TRUE, {}) ELSE Returns(FALSE, {}))

\* index_solutions_batch: batch_process_solutions drops the records whose
\* pipeline raised, invalid ones are skipped, the rest are embedded and added
\* in one call
IndexSolutionsBatch(init, recs, env) ==
    LazyInit(init, env,
        LET skipped == Count(recs, "short")
            valid == SelectSeq(recs, LAMBDA r : r.content = "good")
        IN  IF recs = <<>>
            THEN ReturnsCounts(NoCounts, {})
            ELSE IF valid = <<>>
            THEN ReturnsCounts([indexed |-> 0, failed |-> 0, skipped |-> skipped], {})
            ELSE IF env.embed /\ env.store
            THEN ReturnsCounts([indexed |-> Len(valid), failed |-> 0,
                                skipped |-> skipped], IdsOf(valid))
            ELSE ReturnsCounts([indexed |-> 0, failed |-> Len(recs) - skipped,
                                skipped |-> skipped], {}))

\* trigger_sync lines 308-331 on a fetched batch: normalize, then index
SyncIngest(init, raws, env) ==
    IF ParseAll(raws) = <<>>
    THEN ReturnsCounts(NoCounts, {})
    ELSE IndexSolutionsBatch(init, ParseAll(raws), env)

\* collection.add puts the ids it wrote into the collection, collection.update
\* rewrites documents already there, collection.delete takes the id out
DocsAfter(docs, call, out) ==
    IF call.op = "remove" /\ out.raised = "" /\ out.ok
    THEN docs \ {call.id}
    ELSE IF call.op = "update" THEN docs
    ELSE docs \cup out.ids

InitAfter(init, env) == init \/ env.init

SeqsUpTo(S, n) == UNION {[1..m -> S] : m \in 0..n}

Call(op, id, recs, raws) == [op |-> op, id |-> id, recs |-> recs, raws |-> raws]
NoCall == Call("none", "", <<>>, <<>>)

IxStart ==
    /\ ixInit = FALSE
    /\ ixDocs = {}
    /\ ixCall = NoCall
    /\ ixOut = Returns(FALSE, {})

IxApply(call, out, env) ==
    /\ ixCall' = call
    /\ ixOut' = out
    /\ ixDocs' = DocsAfter(ixDocs, call, out)
    /\ ixInit' = InitAfter(ixInit, env)

IxIndexSolution ==
    /\ \E rec \in Records, env \in Envs :
          IxApply(Call("index", rec.id, <<rec>>, <<>>), IndexSolution(ixInit, rec, env), env)
    /\ UNCHANGED nonIxVars

IxUpdateSolution ==
    /\ \E rec \in Records, env \in Envs :
          IxApply(Call("update", rec.id, <<rec>>, <<>>), UpdateSolutionIndex(ixInit, rec, env), env)
    /\ UNCHANGED nonIxVars

IxRemoveSolution ==
    /\ \E id \in ProviderIds \cup {"None"}, env \in Envs :
          IxApply(Call("remove", id, <<>>, <<>>), RemoveSolutionFromIndex(ixInit, id, env), env)
    /\ UNCHANGED nonIxVars

IxIndexBatch ==
    /\ \E recs \in SeqsUpTo(Records, MaxBatch), env \in Envs :
          IxApply(Call("batch", "", recs, <<>>), IndexSolutionsBatch(ixInit, recs, env), env)
    /\ UNCHANGED nonIxVars

IxSyncIngest ==
    /\ \E raws \in SeqsUpTo(RawRecords, MaxBatch), env \in Envs :
          IxApply(Call("sync", "", <<>>, raws), SyncIngest(ixInit, raws, env), env)
    /\ UNCHANGED nonIxVars

\* IndexingService.cleanup
IxCleanup ==
    /\ ixInit' = FALSE
    /\ ixCall' = Call("cleanup", "", <<>>, <<>>)
    /\ ixOut' = Returns(FALSE, {})
    /\ UNCHANGED ixDocs
    /\ UNCHANGED nonIxVars

IxNext ==
    \/ IxIndexSolution
    \/ IxUpdateSolution
    \/ IxRemoveSolution
    \/ IxIndexBatch
    \/ IxSyncIngest
    \/ IxCleanup

(***************************************************************************)
(* SyncStateManager: the Redis commands, store reachable.                  *)
(***************************************************************************)
NoLock == 0
Absent == "absent"
NoTime == -1

StatFields == {"last_sync_status", "last_error", "last_error_time",
               "last_sync_duration", "mode", "total_solutions",
               "successful_count", "failed_count", "duration_seconds",
               "last_sync_time", "last_updated"}
StringFields == {"last_sync_status", "last_error", "mode"}

EmptyStats == [f \in StatFields |-> IF f \in StringFields THEN Absent ELSE NoTime]

\* redis SET lock_key value ex=timeout nx=True: truthy iff the key was absent
SetNxNoCheck(lk) == TRUE
SetNx(lk) == lk = NoLock

\* acquire_sync_lock: the value of the key after SET ... NX by call p
LockAfterAcquire(lk, p) == IF SetNx(lk) THEN p ELSE lk

\* release_sync_lock: DELETE lock_key, whoever set it
LockAfterReleaseKept(lk) == lk
LockAfterRelease(lk) == NoLock

\* is_sync_in_progress: EXISTS lock_key
IsSyncInProgress(lk) == lk # NoLock

\* update_sync_stats: HSET stats_key mapping={**stats, "last_updated": now}
UpdateSyncStats(old, upd, t) ==
    [f \in StatFields |->
        IF f = "last_updated" THEN t
        ELSE IF f \in DOMAIN upd THEN upd[f] ELSE old[f]]

(***************************************************************************)
(* SyncService.trigger_sync: the dictionaries it builds.                   *)
(***************************************************************************)
NoResult == [status |-> "none", reason |-> "", mode |-> ""]
Skipped == [status |-> "skipped", reason |-> "Sync already in progress", mode |-> ""]
LockFailed == [status |-> "failed", reason |-> "Could not acquire sync lock", mode |-> ""]
BodyFailed(e) == [status |-> "failed", reason |-> e, mode |-> ""]
Success(m) == [status |-> "success", reason |-> "", mode |-> m]

\* the except branch's stats dict (lines 364-370)
FailureStatsNoStatus(dur, e, t) ==
    [last_sync_duration |-> dur, last_error |-> e, last_error_time |-> t]
FailureStats(dur, e, t) ==
    [last_sync_duration |-> dur, last_sync_status |-> "failed",
     last_error |-> e, last_error_time |-> t]

\* the success branch's stats dict (lines 341-347)
SuccessStats(total, ok, failed, dur) ==
    [total_solutions |-> total, successful_count |-> ok, failed_count |-> failed,
     last_sync_duration |-> dur, last_sync_status |-> "success"]

\* _sync_mock_data's stats dict (lines 429-436)
MockStats(total, ok, failed, dur, start) ==
    [total_solutions |-> total, successful_count |-> ok, failed_count |-> failed,
     duration_seconds |-> dur, last_sync_time |-> start, mode |-> "mock"]

\* Settings as shipped defines neither enable_mock_data nor mock_solutions_count
\* (config.py 9-73), which mock_data.py and the repository's scripts read;
\* "mock" and "real" are Settings that define them.
Configs == {"shipped", "mock", "real"}

\* MockDataService.is_mock_mode_enabled
IsMockModeEnabled(c) ==
    CASE c = "shipped" -> "AttributeError"
      [] c = "mock" -> "true"
      [] OTHER -> "false"

\* IndexingService.index_solutions_batch seen from the sync: the counts for k
\* records of which s fail validation; how: "ok", "error" (the except branch)
IndexCounts(k, s, how) ==
    IF k = s THEN [indexed |-> 0, failed |-> 0, skipped |-> s]
    ELSE IF how = "ok" THEN [indexed |-> k - s, failed |-> 0, skipped |-> s]
    ELSE [indexed |-> 0, failed |-> k - s, skipped |-> s]

\* the argument of set_last_sync_time in the non-mock success paths (lines
\* 300, 321, 337): sync_start_time, not the time of the call
TimestampAtCompletion(start, t) == t
TimestampToStore(start, t) == start

\* the store and the calls' locals before any call has taken a step
SyncFresh ==
    /\ pc = [p \in Procs |-> "check"]
    /\ lock = NoLock
    /\ stats = EmptyStats
    /\ lastSync = NoTime
    /\ now = 0
    /\ startT = [p \in Procs |-> NoTime]
    /\ fetched = [p \in Procs |-> [n |-> 0, k |-> 0]]
    /\ err = [p \in Procs |-> ""]
    /\ pend = [p \in Procs |-> NoResult]
    /\ res = [p \in Procs |-> NoResult]
    /\ held = [p \in Procs |-> FALSE]
    /\ wrote = [p \in Procs |-> "none"]

\* NumCalls calls of trigger_sync have been made, forced or not
SyncStart ==
    /\ cfg \in Configs
    /\ force \in [Procs -> BOOLEAN]
    /\ SyncFresh

\* no call takes a step
SyncRest ==
    /\ cfg = "shipped"
    /\ force = [p \in Procs |-> FALSE]
    /\ SyncFresh

\* lines 260-265: if not force and await is_sync_in_progress(): return skipped
CheckInProgress(p) ==
    /\ pc[p] = "check"
    /\ IF ~force[p] /\ IsSyncInProgress(lock)
       THEN /\ pc' = [pc EXCEPT ![p] = "done"]
            /\ res' = [res EXCEPT ![p] = Skipped]
       ELSE /\ pc' = [pc EXCEPT ![p] = "acquire"]
            /\ UNCHANGED res
    /\ UNCHANGED <<cfg, force, lock, stats, lastSync, now, startT, fetched, err, pend, held, wrote>>
    /\ UNCHANGED nonSyncVars

\* lines 268-275: acquire the lock or return failed; sync_start_time = utcnow()
AcquireLock(p) ==
    /\ pc[p] = "acquire"
    /\ lock' = LockAfterAcquire(lock, p)
    /\ IF SetNx(lock)
       THEN /\ pc' = [pc EXCEPT ![p] = "mockcheck"]
            /\ held' = [held EXCEPT ![p] = TRUE]
            /\ startT' = [startT EXCEPT ![p] = now]
            /\ UNCHANGED res
       ELSE /\ pc' = [pc EXCEPT ![p] = "done"]
            /\ res' = [res EXCEPT ![p] = LockFailed]
            /\ UNCHANGED <<held, startT>>
    /\ UNCHANGED <<cfg, force, stats, lastSync, now, fetched, err, pend, wrote>>
    /\ UNCHANGED nonSyncVars

\* line 281: mock_data_service.is_mock_mode_enabled()
MockCheck(p) ==
    /\ pc[p] = "mockcheck"
    /\ LET m == IsMockModeEnabled(cfg) IN
       IF m = "AttributeError"
       THEN /\ pc' = [pc EXCEPT ![p] = "except"]
            /\ err' = [err EXCEPT ![p] = "no attribute enable_mock_data"]
       ELSE /\ pc' = [pc EXCEPT ![p] = IF m = "true" THEN "mock" ELSE "connect"]
            /\ UNCHANGED err
    /\ UNCHANGED <<cfg, force, lock, stats, lastSync, now, startT, fetched, pend, res, held, wrote>>
    /\ UNCHANGED nonSyncVars

\* _sync_mock_data (lines 399-452): index the catalog, set the timestamp, write
\* the stats; an exception is re-raised into trigger_sync's except branch
SyncMockData(p) ==
    /\ pc[p] = "mock"
    /\ \/ /\ pc' = [pc EXCEPT ![p] = "except"]
          /\ err' = [err EXCEPT ![p] = "mock sync error"]
          /\ UNCHANGED <<lastSync, stats, pend, wrote>>
       \/ \E s \in 0..MaxFetched, o \in {"ok", "error"} :
            LET c == IndexCounts(MaxFetched, s, o) IN
            /\ lastSync' = startT[p]
            /\ stats' = UpdateSyncStats(stats,
                          MockStats(MaxFetched, c.indexed, c.failed + c.skipped,
                                    now - startT[p], startT[p]), now)
            /\ wrote' = [wrote EXCEPT ![p] = "mock"]
            /\ pend' = [pend EXCEPT ![p] = Success("mock")]
            /\ pc' = [pc EXCEPT ![p] = "release"]
            /\ UNCHANGED err
    /\ UNCHANGED <<cfg, force, lock, now, startT, fetched, res, held>>
    /\ UNCHANGED nonSyncVars

\* lines 286-290: read last_sync_time, test the provider connection
TestConnection(p) ==
    /\ pc[p] = "connect"
    /\ \/ /\ pc' = [pc EXCEPT ![p] = "fetch"]
          /\ UNCHANGED err
       \/ /\ pc' = [pc EXCEPT ![p] = "except"]
          /\ err' = [err EXCEPT ![p] = "SolarWinds API connection test failed"]
    /\ UNCHANGED <<cfg, force, lock, stats, lastSync, now, startT, fetched, pend, res, held, wrote>>
    /\ UNCHANGED nonSyncVars

\* lines 294-327: fetch, then normalize; n records fetched, k of them parsed
FetchAndParse(p) ==
    /\ pc[p] = "fetch"
    /\ \/ /\ pc' = [pc EXCEPT ![p] = "except"]
          /\ err' = [err EXCEPT ![p] = "fetch error"]
          /\ UNCHANGED <<lastSync, pend, fetched>>
       \/ \E n \in 0..MaxFetched, k \in 0..MaxFetched :
            /\ k <= n
            /\ fetched' = [fetched EXCEPT ![p] = [n |-> n, k |-> k]]
            /\ IF k = 0
               THEN /\ lastSync' = TimestampToStore(startT[p], now)
                    /\ pend' = [pend EXCEPT ![p] = Success("")]
                    /\ pc' = [pc EXCEPT ![p] = "release"]
               ELSE /\ pc' = [pc EXCEPT ![p] = "index"]
                    /\ UNCHANGED <<lastSync, pend>>
            /\ UNCHANGED err
    /\ UNCHANGED <<cfg, force, lock, stats, now, startT, res, held, wrote>>
    /\ UNCHANGED nonSyncVars

\* lines 331-358: index the batch, set the timestamp, write the success stats;
\* index_solutions_batch raises when its lazy initialize() fails
IndexAndRecord(p) ==
    /\ pc[p] = "index"
    /\ \/ /\ pc' = [pc EXCEPT ![p] = "except"]
          /\ err' = [err EXCEPT ![p] = "Indexing service initialization failed"]
          /\ UNCHANGED <<lastSync, stats, pend, wrote>>
       \/ \E s \in 0..fetched[p].k, o \in {"ok", "error"} :
            LET c == IndexCounts(fetched[p].k, s, o) IN
            /\ lastSync' = TimestampToStore(startT[p], now)
            /\ stats' = UpdateSyncStats(stats,
                          SuccessStats(fetched[p].n, c.indexed, c.failed + c.skipped,
                                       now - startT[p]), now)
            /\ wrote' = [wrote EXCEPT ![p] = "success"]
            /\ pend' = [pend EXCEPT ![p] = Success("")]
            /\ pc' = [pc EXCEPT ![p] = "release"]
            /\ UNCHANGED err
    /\ UNCHANGED <<cfg, force, lock, now, startT, fetched, res, held>>
    /\ UNCHANGED nonSyncVars

\* lines 360-378: the except branch writes the failure stats
ExceptBranch(p) ==
    /\ pc[p] = "except"
    /\ stats' = UpdateSyncStats(stats, FailureStats(now - startT[p], err[p], now), now)
    /\ wrote' = [wrote EXCEPT ![p] = "failed"]
    /\ pend' = [pend EXCEPT ![p] = BodyFailed(err[p])]
    /\ pc' = [pc EXCEPT ![p] = "release"]
    /\ UNCHANGED <<cfg, force, lock, lastSync, now, startT, fetched, err, res, held>>
    /\ UNCHANGED nonSyncVars

\* lines 380-382: finally: release_sync_lock(); then the return takes effect
ReleaseAndReturn(p) ==
    /\ pc[p] = "release"
    /\ lock' = LockAfterRelease(lock)
    /\ res' = [res EXCEPT ![p] = pend[p]]
    /\ pc' = [pc EXCEPT ![p] = "done"]
    \* the call's locals go out of scope
    /\ startT' = [startT EXCEPT ![p] = NoTime]
    /\ fetched' = [fetched EXCEPT ![p] = [n |-> 0, k |-> 0]]
    /\ err' = [err EXCEPT ![p] = ""]
    /\ pend' = [pend EXCEPT ![p] = NoResult]
    /\ UNCHANGED <<cfg, force, stats, lastSync, now, held, wrote>>
    /\ UNCHANGED nonSyncVars

\* the wall clock advances
Tick ==
    /\ now < MaxTime
    /\ now' = now + 1
    /\ UNCHANGED <<cfg, pc, force, lock, stats, lastSync, startT, fetched, err, pend, res,
                   held, wrote>>
    /\ UNCHANGED nonSyncVars

SyncNext ==
    \/ Tick
    \/ \E p \in Procs :
         \/ CheckInProgress(p)
         \/ AcquireLock(p)
         \/ MockCheck(p)
         \/ SyncMockData(p)
         \/ TestConnection(p)
         \/ FetchAndParse(p)
         \/ IndexAndRecord(p)
         \/ ExceptBranch(p)
         \/ ReleaseAndReturn(p)

(***************************************************************************)
(* RateLimiter.acquire and SolarWindsClient._make_request under its retry  *)
(* wrapper (solarwinds.py 20-158).  Between two awaits a coroutine runs    *)
(* alone, so acquire() up to its sleep, and from its wake-up on, is one    *)
(* step.                                                                   *)
(***************************************************************************)
WindowSeconds == 60
MaxAttempts == 3

Callers == 1..NumCallers

\* what the HTTP exchange of one attempt gives
Outcomes == {"ok", "status_429", "status_error", "transport_error"}

\* [req_time for req_time in self.requests if now - req_time < window_seconds]
Prune(reqs, t) == SelectSeq(reqs, LAMBDA r : t - r < WindowSeconds)

\* len(self.requests) >= self.max_requests
AtLimitStrict(reqs) == Len(reqs) > MaxRequests
AtLimit(reqs) == Len(reqs) >= MaxRequests

\* self.window_seconds - (now - self.requests[0])
SleepTime(reqs, t) == WindowSeconds - (t - reqs[1])

\* the exception the try body raises
BodyRaises(o) ==
    CASE o = "ok" -> ""
      [] o = "status_429" -> "RateLimitError"
      [] o = "status_error" -> "httpx.HTTPStatusError"
      [] o = "transport_error" -> "httpx.RequestError"

\* the except clauses of _make_request
ExceptClauses(ex) ==
    IF ex \in {"httpx.HTTPStatusError", "httpx.RequestError"}
    THEN "SolarWindsAPIError"
    ELSE ex

\* the exception that leaves _make_request
RaisedBy(o) == ExceptClauses(BodyRaises(o))

\* retry_if_exception_type((httpx.RequestError, httpx.HTTPStatusError))
ShouldRetry(ex) == ex \in {"httpx.RequestError", "httpx.HTTPStatusError"}

ClientFresh ==
    /\ clock = 0
    /\ requests = <<>>
    /\ cpc = [c \in Callers |-> "idle"]
    /\ attempts = [c \in Callers |-> 0]
    /\ wakeAt = [c \in Callers |-> NoTime]
    /\ outcome = [c \in Callers |-> ""]
    /\ result = [c \in Callers |-> ""]
    /\ granted = <<>>
    /\ blockedBy = [c \in Callers |-> NoTime]
    /\ grantAt = [c \in Callers |-> NoTime]

ClientStart ==
    /\ configured \in BOOLEAN
    /\ ClientFresh

ClientRest ==
    /\ configured = TRUE
    /\ ClientFresh

\* a caller invokes _make_request: _validate_client(), then acquire()
MakeRequest(c) ==
    /\ cpc[c] = "idle"
    /\ attempts' = [attempts EXCEPT ![c] = 1]
    /\ IF configured
       THEN /\ cpc' = [cpc EXCEPT ![c] = "acquire"]
            /\ UNCHANGED result
       ELSE /\ cpc' = [cpc EXCEPT ![c] = "done"]
            /\ result' = [result EXCEPT ![c] = "SolarWindsAPIError"]
    /\ UNCHANGED <<clock, configured, requests, wakeAt, outcome, granted,
                   blockedBy, grantAt>>
    /\ UNCHANGED nonClientVars

\* RateLimiter.acquire, from its entry or from the recursive call after the
\* sleep: prune, then either go to sleep or record the timestamp
Acquire(c) ==
    /\ cpc[c] = "acquire"
    /\ LET kept == Prune(requests, clock) IN
         IF AtLimit(kept) /\ SleepTime(kept, clock) > 0
         THEN /\ requests' = kept
              /\ cpc' = [cpc EXCEPT ![c] = "sleeping"]
              /\ wakeAt' = [wakeAt EXCEPT ![c] = clock + SleepTime(kept, clock)]
              /\ blockedBy' = [blockedBy EXCEPT ![c] =
                                  IF @ = NoTime THEN kept[1] ELSE @]
              /\ UNCHANGED <<granted, grantAt>>
         ELSE /\ requests' = Append(kept, clock)
              /\ cpc' = [cpc EXCEPT ![c] = "request"]
              /\ granted' = Append(granted, clock)
              /\ grantAt' = [grantAt EXCEPT ![c] = clock]
              /\ UNCHANGED <<wakeAt, blockedBy>>
    /\ UNCHANGED <<clock, configured, attempts, outcome, result>>
    /\ UNCHANGED nonClientVars

\* asyncio.sleep(sleep_time) is over: return await self.acquire()
Wake(c) ==
    /\ cpc[c] = "sleeping"
    /\ clock >= wakeAt[c]
    /\ cpc' = [cpc EXCEPT ![c] = "acquire"]
    /\ UNCHANGED <<clock, configured, requests, attempts, wakeAt, outcome,
                   result, granted, blockedBy, grantAt>>
    /\ UNCHANGED nonClientVars

\* the HTTP exchange of the attempt and what the retry wrapper does with
\* the exception that leaves the function
Respond(c) ==
    /\ cpc[c] = "request"
    /\ \E o \in Outcomes :
         /\ outcome' = [outcome EXCEPT ![c] = o]
         /\ IF RaisedBy(o) = ""
            THEN /\ cpc' = [cpc EXCEPT ![c] = "done"]
                 /\ result' = [result EXCEPT ![c] = "response"]
                 /\ UNCHANGED attempts
            ELSE IF ShouldRetry(RaisedBy(o)) /\ attempts[c] < MaxAttempts
            THEN /\ cpc' = [cpc EXCEPT ![c] = "acquire"]
                 /\ attempts' = [attempts EXCEPT ![c] = @ + 1]
                 /\ UNCHANGED result
            ELSE /\ cpc' = [cpc EXCEPT ![c] = "done"]
                 /\ result' = [result EXCEPT ![c] = RaisedBy(o)]
                 /\ UNCHANGED attempts
    /\ UNCHANGED <<clock, configured, requests, wakeAt, granted, blockedBy, grantAt>>
    /\ UNCHANGED nonClientVars

ClockTick ==
    /\ clock + ClockStep <= MaxClock
    /\ clock' = clock + ClockStep
    /\ UNCHANGED <<configured, requests, cpc, attempts, wakeAt, outcome, result,
                   granted, blockedBy, grantAt>>
    /\ UNCHANGED nonClientVars

ClientNext ==
    \/ \E c \in Callers : MakeRequest(c)
    \/ \E c \in Callers : Acquire(c)
    \/ \E c \in Callers : Wake(c)
    \/ \E c \in Callers : Respond(c)
    \/ ClockTick

(***************************************************************************)
(* SyncStateManager (sync_service.py 23-163) with a store that may be      *)
(* unreachable: at connect time (redis_client stays None) or later (the    *)
(* command raises inside the method's try block).                          *)
(***************************************************************************)
MgrOwner == 1

MgrRet(ok, t, w) == [ok |-> ok, time |-> t, raised |-> FALSE, wrote |-> w]
MgrCall(op) == [op |-> op, client |-> mgrClient, up |-> mgrUp]

MgrStart ==
    /\ mgrClient = FALSE
    /\ mgrUp = TRUE
    /\ mgrLock = NoLock
    /\ mgrLast = NoTime
    /\ mgrStats = EmptyStats
    /\ mgrCall = [op |-> "none", client |-> FALSE, up |-> TRUE]
    /\ mgrRet = MgrRet(FALSE, NoTime, FALSE)

\* the store becomes unreachable, or reachable again
MgrStoreChange ==
    /\ mgrUp' = ~mgrUp
    /\ UNCHANGED <<mgrClient, mgrLock, mgrLast, mgrStats, mgrCall, mgrRet>>
    /\ UNCHANGED nonMgrVars

\* connect: from_url, ping; on any exception redis_client = None
MgrConnect ==
    /\ mgrClient' = mgrUp
    /\ mgrCall' = MgrCall("connect")
    /\ mgrRet' = MgrRet(mgrUp, NoTime, FALSE)
    /\ UNCHANGED <<mgrUp, mgrLock, mgrLast, mgrStats>>
    /\ UNCHANGED nonMgrVars

\* disconnect
MgrDisconnect ==
    /\ mgrClient' = FALSE
    /\ mgrCall' = MgrCall("disconnect")
    /\ mgrRet' = MgrRet(TRUE, NoTime, FALSE)
    /\ UNCHANGED <<mgrUp, mgrLock, mgrLast, mgrStats>>
    /\ UNCHANGED nonMgrVars

\* what acquire_sync_lock returns: True without a client, bool(SET NX) with
\* one, False when the command raises
AcquireReturns(client, up, lk) ==
    IF ~client THEN TRUE
    ELSE IF up THEN SetNx(lk)
    ELSE FALSE

MgrAcquireSyncLock ==
    /\ mgrCall' = MgrCall("acquire_sync_lock")
    /\ mgrRet' = MgrRet(AcquireReturns(mgrClient, mgrUp, mgrLock), NoTime,
                        mgrClient /\ mgrUp /\ SetNx(mgrLock))
    /\ mgrLock' = IF mgrClient /\ mgrUp THEN LockAfterAcquire(mgrLock, MgrOwner)
                  ELSE mgrLock
    /\ UNCHANGED <<mgrClient, mgrUp, mgrLast, mgrStats>>
    /\ UNCHANGED nonMgrVars

MgrReleaseSyncLock ==
    /\ mgrCall' = MgrCall("release_sync_lock")
    /\ mgrRet' = MgrRet(TRUE, NoTime, mgrClient /\ mgrUp)
    /\ mgrLock' = IF mgrClient /\ mgrUp THEN LockAfterRelease(mgrLock) ELSE mgrLock
    /\ UNCHANGED <<mgrClient, mgrUp, mgrLast, mgrStats>>
    /\ UNCHANGED nonMgrVars

MgrIsSyncInProgress ==
    /\ mgrCall' = MgrCall("is_sync_in_progress")
    /\ mgrRet' = MgrRet(mgrClient /\ mgrUp /\ IsSyncInProgress(mgrLock), NoTime, FALSE)
    /\ UNCHANGED <<mgrClient, mgrUp, mgrLock, mgrLast, mgrStats>>
    /\ UNCHANGED nonMgrVars

\* get_last_sync_time: None without a client, when HGET raises, or when the
\* field is not there
MgrGetLastSyncTime ==
    /\ mgrCall' = MgrCall("get_last_sync_time")
    /\ mgrRet' = MgrRet(TRUE, IF mgrClient /\ mgrUp THEN mgrLast ELSE NoTime, FALSE)
    /\ UNCHANGED <<mgrClient, mgrUp, mgrLock, mgrLast, mgrStats>>
    /\ UNCHANGED nonMgrVars

MgrSetLastSyncTime ==
    /\ \E t \in 0..MaxStamp :
         mgrLast' = IF mgrClient /\ mgrUp THEN t ELSE mgrLast
    /\ mgrCall' = MgrCall("set_last_sync_time")
    /\ mgrRet' = MgrRet(TRUE, NoTime, mgrClient /\ mgrUp)
    /\ UNCHANGED <<mgrClient, mgrUp, mgrLock, mgrStats>>
    /\ UNCHANGED nonMgrVars

MgrUpdateSyncStats ==
    /\ \E st \in {"success", "failed"}, t \in 0..MaxStamp :
         mgrStats' = IF mgrClient /\ mgrUp
                     THEN UpdateSyncStats(mgrStats, [last_sync_status |-> st], t)
                     ELSE mgrStats
    /\ mgrCall' = MgrCall("update_sync_stats")
    /\ mgrRet' = MgrRet(TRUE, NoTime, mgrClient /\ mgrUp)
    /\ UNCHANGED <<mgrClient, mgrUp, mgrLock, mgrLast>>
    /\ UNCHANGED nonMgrVars

MgrNext ==
    \/ MgrStoreChange
    \/ MgrConnect
    \/ MgrDisconnect
    \/ MgrAcquireSyncLock
    \/ MgrReleaseSyncLock
    \/ MgrIsSyncInProgress
    \/ MgrGetLastSyncTime
    \/ MgrSetLastSyncTime
    \/ MgrUpdateSyncStats

(***************************************************************************)
(* EmbeddingService.get_embedding (embedding.py 273-317) on an initialized *)
(* service, with its cache.                                                *)
(***************************************************************************)
EmbProviders == {"openai", "local"}
Texts == 0..NumTexts            \* 0: a text that is empty once stripped
ErrorTexts == {"e1", "e2"}
ProviderOutcomes == {"ok"} \cup ErrorTexts

\* fallback_provider = "local" if self.primary_provider == "openai" else "openai"
FallbackProvider(prov) == IF prov = "openai" THEN "local" ELSE "openai"

\* _get_cache_key(text, model): one digest per (model, text)
GetCacheKey(text, model) == 2 * (text - 1) + (IF model = "openai" THEN 1 ELSE 2)

\* the vector a provider computes
VectorOf(prov) == IF prov = "openai" THEN "v1" ELSE "v2"

\* EmbeddingCache.get
CacheGet(c, k) == IF k \in KeysOf(c) THEN c[IndexOfKey(c, k)].emb ELSE ""

\* raise EmbeddingError(f"All embedding providers failed: {str(e)}")
AllFailedCarriesFallback(e, fallback_error) == fallback_error
AllFailedCarries(e, fallback_error) == e

EmbReturn(v) == [raised |-> FALSE, vec |-> v, error |-> ""]
EmbRaise(e) == [raised |-> TRUE, vec |-> "", error |-> e]
EmbCall(text, useCache, hit, po, fo) ==
    [text |-> text, useCache |-> useCache, hit |-> hit, primary |-> po, fallback |-> fo]
EmbPut(k, changed) == [key |-> k, changed |-> changed]

EmbStart ==
    /\ embPrimary \in EmbProviders
    /\ embCache = <<>>
    /\ embClock = 0
    /\ embCall = EmbCall(0, FALSE, FALSE, "unused", "unused")
    /\ embRet = EmbReturn("")
    /\ embPut = EmbPut(0, FALSE)

EmbRest ==
    /\ embPrimary = "local"
    /\ embCache = <<>>
    /\ embClock = 0
    /\ embCall = EmbCall(0, FALSE, FALSE, "unused", "unused")
    /\ embRet = EmbReturn("")
    /\ embPut = EmbPut(0, FALSE)

\* the cache after the call, the value returned and the key written
EmbOutcome(text, useCache, po, fo) ==
    LET pk == GetCacheKey(text, embPrimary)
        fb == FallbackProvider(embPrimary)
        fk == GetCacheKey(text, fb)
    IN  IF text = 0
        THEN [call |-> EmbCall(text, useCache, FALSE, "unused", "unused"),
              ret |-> EmbRaise("Empty text provided for embedding"),
              cache |-> embCache, key |-> 0]
        ELSE IF useCache /\ CacheGet(embCache, pk) # ""
        THEN [call |-> EmbCall(text, useCache, TRUE, "unused", "unused"),
              ret |-> EmbReturn(CacheGet(embCache, pk)),
              cache |-> embCache, key |-> 0]
        ELSE IF po = "ok"
        THEN [call |-> EmbCall(text, useCache, FALSE, po, "unused"),
              ret |-> EmbReturn(VectorOf(embPrimary)),
              cache |-> IF useCache
                        THEN CacheSet(embCache, pk, VectorOf(embPrimary), embClock)
                        ELSE embCache,
              key |-> IF useCache THEN pk ELSE 0]
        ELSE IF fo = "ok"
        THEN [call |-> EmbCall(text, useCache, FALSE, po, fo),
              ret |-> EmbReturn(VectorOf(fb)),
              cache |-> IF useCache
                        THEN CacheSet(embCache, fk, VectorOf(fb), embClock)
                        ELSE embCache,
              key |-> IF useCache THEN fk ELSE 0]
        ELSE [call |-> EmbCall(text, useCache, FALSE, po, fo),
              ret |-> EmbRaise(AllFailedCarries(po, fo)),
              cache |-> embCache, key |-> 0]

GetEmbedding ==
    /\ \E text \in Texts, useCache \in BOOLEAN,
          po \in ProviderOutcomes, fo \in ProviderOutcomes :
         LET o == EmbOutcome(text, useCache, po, fo) IN
         /\ embCall' = o.call
         /\ embRet' = o.ret
         /\ embCache' = o.cache
         /\ embPut' = EmbPut(o.key, o.cache # embCache)
    /\ UNCHANGED <<embPrimary, embClock>>
    /\ UNCHANGED nonEmbVars

\* the clock reads later
EmbTick ==
    /\ embClock < MaxEmbClock
    /\ embClock' = embClock + 1
    /\ UNCHANGED <<embPrimary, embCache, embCall, embRet, embPut>>
    /\ UNCHANGED nonEmbVars

EmbNext ==
    \/ GetEmbedding
    \/ EmbTick

(***************************************************************************)
(* HTTP layer: the solutions routes (api/v1/solutions.py), GET /metrics    *)
(* (api/v1/metrics.py) and the application's exception handlers            *)
(* (main.py 133-181).  A response is its status code, the layout of its    *)
(* body and the exception text the body carries ("" when it carries none). *)
(***************************************************************************)
Messages == {"m1", "m2"}     \* str(e) of the underlying exception
StatusVectorStoreError == 503

ApiResponse(code, layout, text) == [code |-> code, layout |-> layout, text |-> text]

\* what the route function does: return a body, or raise
Return(text) == [kind |-> "return", status |-> 200, text |-> text]
RaiseHttp(code, text) == [kind |-> "HTTPException", status |-> code, text |-> text]
RaiseDomain(code, text) == [kind |-> "SolarWindsChatbotException", status |-> code, text |-> text]
RaiseOther(text) == [kind |-> "Exception", status |-> 500, text |-> text]

\* custom_exception_handler: {"error": exc.message, "details", "status_code"}
CustomExceptionHandler(exc) == ApiResponse(exc.status, "error_details_status", exc.text)

\* general_exception_handler: the message only when settings.debug
GeneralExceptionHandler(exc, dbg) ==
    ApiResponse(500, "error_details_status", IF dbg THEN exc.text ELSE "")

\* the framework's handler of HTTPException: {"detail": exc.detail}
HttpExceptionHandler(exc) == ApiResponse(exc.status, "detail", exc.text)

\* the response the application gives for what the route did
Dispatch(out, dbg) ==
    CASE out.kind = "return" -> ApiResponse(200, "json", out.text)
      [] out.kind = "HTTPException" -> HttpExceptionHandler(out)
      [] out.kind = "SolarWindsChatbotException" -> CustomExceptionHandler(out)
      [] OTHER -> GeneralExceptionHandler(out, dbg)

\* "except HTTPException: raise / except Exception as e: raise
\* HTTPException(500, detail=f"...: {str(e)}")"
WrapIn500(out) ==
    IF out.kind \in {"return", "HTTPException"} THEN out
    ELSE RaiseHttp(500, out.text)

\* what the services do during one request: the lazy initialize() and the
\* operation itself either work or fail with an exception whose text is msg
ServiceOutcomes == {"ok", "init_fails", "op_fails"}

\* IndexingService.search_solutions as the route calls it
SearchService(ready, o, msg) ==
    IF ~ready /\ o = "init_fails" THEN RaiseDomain(StatusVectorStoreError, msg)
    ELSE IF o = "op_fails" THEN RaiseDomain(StatusVectorStoreError, msg)
    ELSE Return("")

\* GET /solutions/search
SearchRoute(ready, blank, o, msg) ==
    WrapIn500(IF blank THEN RaiseHttp(400, "") ELSE SearchService(ready, o, msg))

\* GET /solutions/stats: get_index_stats and health_check catch everything
\* and put str(e) into the dictionary they return
StatsRoute(ready, o, msg) ==
    WrapIn500(IF ready /\ o = "op_fails" THEN Return(msg) ELSE Return(""))

\* GET /solutions/sync-status: get_sync_status catches everything likewise
SyncStatusRoute(o, msg) ==
    WrapIn500(IF o = "op_fails" THEN Return(msg) ELSE Return(""))

\* GET /solutions/{solution_id}: the lazy initialize() may raise; a failing
\* lookup gives None, hence 404
GetSolutionRoute(ready, o, msg) ==
    WrapIn500(IF ~ready /\ o = "init_fails" THEN RaiseDomain(StatusVectorStoreError, msg)
              ELSE IF o = "op_fails" THEN RaiseHttp(404, "")
              ELSE Return(""))

\* GET /metrics has no try block: what psutil raises leaves the route
MetricsRoute(o, msg) ==
    IF o = "op_fails" THEN RaiseOther(msg) ELSE Return("")

\* indexing_service._initialized after a route that runs the lazy initialize()
ReadyAfter(ready, o) == ready \/ o # "init_fails"

ApiRequest(endpoint, blank, o, msg) ==
    [endpoint |-> endpoint, blank |-> blank, outcome |-> o, msg |-> msg,
     ready |-> apiReady]

\* the response to a request, as a function of the request
ApiRespond(req) ==
    CASE req.endpoint = "search" ->
            Dispatch(SearchRoute(req.ready, req.blank, req.outcome, req.msg), debug)
      [] req.endpoint = "stats" ->
            Dispatch(StatsRoute(req.ready, req.outcome, req.msg), debug)
      [] req.endpoint = "sync-status" ->
            Dispatch(SyncStatusRoute(req.outcome, req.msg), debug)
      [] req.endpoint = "solution" ->
            Dispatch(GetSolutionRoute(req.ready, req.outcome, req.msg), debug)
      [] req.endpoint = "metrics" ->
            Dispatch(MetricsRoute(req.outcome, req.msg), debug)
      [] OTHER -> ApiResponse(0, "none", "")

ApiFresh ==
    /\ apiReady = FALSE
    /\ apiReq = [endpoint |-> "none", blank |-> FALSE, outcome |-> "ok", msg |-> "m1",
                 ready |-> FALSE]
    /\ apiResp = ApiResponse(0, "none", "")

ApiStart ==
    /\ debug \in BOOLEAN
    /\ ApiFresh

ApiRest ==
    /\ debug = TRUE
    /\ ApiFresh

ApiSearch ==
    /\ \E blank \in BOOLEAN, o \in ServiceOutcomes, msg \in Messages :
         /\ apiReq' = ApiRequest("search", blank, o, msg)
         /\ apiResp' = ApiRespond(ApiRequest("search", blank, o, msg))
         /\ apiReady' = IF blank THEN apiReady ELSE ReadyAfter(apiReady, o)
    /\ UNCHANGED debug
    /\ UNCHANGED nonApiVars

ApiStats ==
    /\ \E o \in ServiceOutcomes, msg \in Messages :
         /\ apiReq' = ApiRequest("stats", FALSE, o, msg)
         /\ apiResp' = ApiRespond(ApiRequest("stats", FALSE, o, msg))
    /\ UNCHANGED <<debug, apiReady>>
    /\ UNCHANGED nonApiVars

ApiSyncStatus ==
    /\ \E o \in ServiceOutcomes, msg \in Messages :
         /\ apiReq' = ApiRequest("sync-status", FALSE, o, msg)
         /\ apiResp' = ApiRespond(ApiRequest("sync-status", FALSE, o, msg))
    /\ UNCHANGED <<debug, apiReady>>
    /\ UNCHANGED nonApiVars

ApiGetSolution ==
    /\ \E o \in ServiceOutcomes, msg \in Messages :
         /\ apiReq' = ApiRequest("solution", FALSE, o, msg)
         /\ apiResp' = ApiRespond(ApiRequest("solution", FALSE, o, msg))
         /\ apiReady' = ReadyAfter(apiReady, o)
    /\ UNCHANGED debug
    /\ UNCHANGED nonApiVars

ApiMetrics ==
    /\ \E o \in ServiceOutcomes, msg \in Messages :
         /\ apiReq' = ApiRequest("metrics", FALSE, o, msg)
         /\ apiResp' = ApiRespond(ApiRequest("metrics", FALSE, o, msg))
    /\ UNCHANGED <<debug, apiReady>>
    /\ UNCHANGED nonApiVars

\* IndexingService.cleanup at shutdown, before the next start
ApiCleanup ==
    /\ apiReady
    /\ apiReady' = FALSE
    /\ UNCHANGED <<debug, apiReq, apiResp>>
    /\ UNCHANGED nonApiVars

ApiNext ==
    \/ ApiSearch
    \/ ApiStats
    \/ ApiSyncStatus
    \/ ApiGetSolution
    \/ ApiMetrics
    \/ ApiCleanup

(***************************************************************************)
(* VectorStoreService (vector_store.py) over a connected Chroma            *)
(* collection.  A document is the version of the solution it was written   *)
(* from: content and metadata are both copied from the record.             *)
(***************************************************************************)
StoreIds == {"s1", "s2"}
Versions == 1..MaxVersion
StoreRecords == [id : StoreIds, version : Versions]
NoDocs == [i \in StoreIds |-> 0]

\* Collection.add is given ids that may be in the collection already, or
\* twice in one call.  The library is not pinned; its releases either skip
\* such a record or reject the whole call.
AddModes == {"skips", "rejects"}

RECURSIVE AddSkipping(_, _)
AddSkipping(docs, recs) ==
    IF recs = <<>> THEN docs
    ELSE AddSkipping(IF docs[Head(recs).id] = 0
                        THEN [docs EXCEPT ![Head(recs).id] = Head(recs).version]
                        ELSE docs,
                     Tail(recs))

HasDuplicate(docs, recs) ==
    \/ \E i \in 1..Len(recs) : docs[recs[i].id] # 0
    \/ \E i, j \in 1..Len(recs) : i # j /\ recs[i].id = recs[j].id

\* self.collection.add(embeddings, documents, metadatas, ids)
CollectionAdd(docs, recs, mode) ==
    IF mode = "rejects" /\ HasDuplicate(docs, recs)
        THEN [docs |-> docs, raised |-> TRUE]
        ELSE [docs |-> AddSkipping(docs, recs), raised |-> FALSE]

\* self.collection.update(ids=[solution.id], ...): only an existing document
CollectionUpdate(docs, rec) ==
    IF docs[rec.id] = 0 THEN docs ELSE [docs EXCEPT ![rec.id] = rec.version]

\* self.collection.delete(ids=[solution_id])
CollectionDelete(docs, id) == [docs EXCEPT ![id] = 0]

\* self.collection.get(ids=[solution_id], include=[documents, metadatas])
CollectionGet(docs, id) == docs[id]

VsCall(op, recs, id) == [op |-> op, recs |-> recs, id |-> id, before |-> vsDocs]
VsRet(raised, found) == [raised |-> raised, found |-> found]

AddBatches == {<<>>} \cup UNION {[1..n -> StoreRecords] : n \in 1..MaxAdd}

VsStart ==
    /\ vsDocs = NoDocs
    /\ vsCall = [op |-> "none", recs |-> <<>>, id |-> "s1", before |-> NoDocs]
    /\ vsRet = VsRet(FALSE, 0)

\* add_solution: a failure of the add is raised as VectorStoreError
VsAddSolution ==
    /\ \E rec \in StoreRecords, mode \in AddModes :
         /\ vsCall' = VsCall("add_solution", <<rec>>, rec.id)
         /\ vsDocs' = CollectionAdd(vsDocs, <<rec>>, mode).docs
         /\ vsRet' = VsRet(CollectionAdd(vsDocs, <<rec>>, mode).raised, 0)
    /\ UNCHANGED nonVsVars

\* add_solutions_batch
VsAddSolutionsBatch ==
    /\ \E recs \in AddBatches, mode \in AddModes :
         /\ vsCall' = VsCall("add_solutions_batch", recs, "s1")
         /\ vsDocs' = CollectionAdd(vsDocs, recs, mode).docs
         /\ vsRet' = VsRet(CollectionAdd(vsDocs, recs, mode).raised, 0)
    /\ UNCHANGED nonVsVars

\* update_solution
VsUpdateSolution ==
    /\ \E rec \in StoreRecords :
         /\ vsCall' = VsCall("update_solution", <<rec>>, rec.id)
         /\ vsDocs' = CollectionUpdate(vsDocs, rec)
         /\ vsRet' = VsRet(FALSE, 0)
    /\ UNCHANGED nonVsVars

\* delete_solution
VsDeleteSolution ==
    /\ \E id \in StoreIds :
         /\ vsCall' = VsCall("delete_solution", <<>>, id)
         /\ vsDocs' = CollectionDelete(vsDocs, id)
         /\ vsRet' = VsRet(FALSE, 0)
    /\ UNCHANGED nonVsVars

\* get_solution_by_id: the record rebuilt from document and metadata, or None
VsGetSolutionById ==
    /\ \E id \in StoreIds :
         /\ vsCall' = VsCall("get_solution_by_id", <<>>, id)
         /\ vsRet' = VsRet(FALSE, CollectionGet(vsDocs, id))
    /\ UNCHANGED vsDocs
    /\ UNCHANGED nonVsVars

VsNext ==
    \/ VsAddSolution
    \/ VsAddSolutionsBatch
    \/ VsUpdateSolution
    \/ VsDeleteSolution
    \/ VsGetSolutionById

(***************************************************************************)
(* Application lifespan (main.py 26-80): three startup steps, the yield    *)
(* during which the application serves, three shutdown steps.  Each step   *)
(* is a call inside its own try / except Exception.                        *)
(***************************************************************************)
\* the statements of lifespan() in program order
LifespanOrder ==
    <<"indexing_service.initialize", "llm_service.initialize", "sync_service.start",
      "yield",
      "sync_service.stop", "llm_service.cleanup", "indexing_service.cleanup",
      "end">>

PositionOf(step) == CHOOSE k \in 1..Len(LifespanOrder) : LifespanOrder[k] = step

\* a step that lets its exception leave lifespan()
ExceptPropagates(step, raised) ==
    IF raised THEN "aborted" ELSE LifespanOrder[PositionOf(step) + 1]

\* "except Exception as e: logger.error(...)": the next statement runs
\* whether the call raised or not
ExceptLogs(step, raised) == LifespanOrder[PositionOf(step) + 1]

\* one try block of lifespan(): the call is attempted, returns or raises
LifeStep(step) ==
    /\ lifePc = step
    /\ \E raised \in BOOLEAN :
         /\ lifeLog' = Append(lifeLog, [step |-> step, raised |-> raised])
         /\ lifePc' = ExceptLogs(step, raised)

LifeStart ==
    /\ lifePc = LifespanOrder[1]
    /\ lifeLog = <<>>

LifeInitializeIndexing ==
    /\ LifeStep("indexing_service.initialize")
    /\ UNCHANGED nonLifeVars

LifeInitializeLlm ==
    /\ LifeStep("llm_service.initialize")
    /\ UNCHANGED nonLifeVars

LifeStartSync ==
    /\ LifeStep("sync_service.start")
    /\ UNCHANGED nonLifeVars

\* the application is asked to shut down: lifespan() resumes after the yield
LifeShutdown ==
    /\ lifePc = "yield"
    /\ lifePc' = "sync_service.stop"
    /\ UNCHANGED lifeLog
    /\ UNCHANGED nonLifeVars

LifeStopSync ==
    /\ LifeStep("sync_service.stop")
    /\ UNCHANGED nonLifeVars

LifeCleanupLlm ==
    /\ LifeStep("llm_service.cleanup")
    /\ UNCHANGED nonLifeVars

LifeCleanupIndexing ==
    /\ LifeStep("indexing_service.cleanup")
    /\ UNCHANGED nonLifeVars

LifeNext ==
    \/ LifeInitializeIndexing
    \/ LifeInitializeLlm
    \/ LifeStartSync
    \/ LifeShutdown
    \/ LifeStopSync
    \/ LifeCleanupLlm
    \/ LifeCleanupIndexing

(***************************************************************************)
(* SyncService.start / stop (sync_service.py 165-240) with the             *)
(* trigger_sync coroutines that run on the same event loop: the scheduler  *)
(* job (_periodic_sync), the task start() creates with                    *)
(* asyncio.create_task, and a call made by the API route.                  *)
(***************************************************************************)
Origins == {"scheduler", "initial", "api"}

\* state_manager.release_sync_lock(): nothing without a client
SvcLockAfterRelease(client, lk) == IF client THEN "free" ELSE lk

SvcStartState ==
    /\ svcRunning = FALSE
    /\ svcClient = FALSE
    /\ svcLock = "free"
    /\ svcTask = [o \in Origins |-> "idle"]
    /\ svcStop = "idle"

\* start(): connect (which may fail and leave redis_client None), scheduler
\* started, is_running set; _check_initial_sync creates the initial task when
\* there is no recent sync
SvcStart ==
    /\ ~svcRunning
    /\ svcStop # "disconnecting"
    /\ \E connected \in BOOLEAN, initial \in BOOLEAN :
         /\ svcClient' = connected
         /\ svcTask' = IF initial /\ svcTask["initial"] \in {"idle", "done"}
                          THEN [svcTask EXCEPT !["initial"] = "called"]
                          ELSE svcTask
    /\ svcRunning' = TRUE
    /\ svcStop' = "idle"
    /\ UNCHANGED svcLock
    /\ UNCHANGED nonSvcVars

\* the cron trigger fires _periodic_sync (max_instances=1)
SvcSchedulerFires ==
    /\ svcRunning
    /\ svcStop = "idle"
    /\ svcTask["scheduler"] \in {"idle", "done"}
    /\ svcTask' = [svcTask EXCEPT !["scheduler"] = "called"]
    /\ UNCHANGED <<svcRunning, svcClient, svcLock, svcStop>>
    /\ UNCHANGED nonSvcVars

\* POST /solutions/sync calls sync_service.trigger_sync
SvcApiCalls ==
    /\ svcTask["api"] \in {"idle", "done"}
    /\ svcTask' = [svcTask EXCEPT !["api"] = "called"]
    /\ UNCHANGED <<svcRunning, svcClient, svcLock, svcStop>>
    /\ UNCHANGED nonSvcVars

\* trigger_sync up to the try block: skipped when a sync is in progress,
\* failed when SET NX does not create the key, else the body starts; without
\* a client the lock is reported as acquired and no key is written
SvcTaskEnters(o) ==
    /\ svcTask[o] = "called"
    /\ IF svcClient /\ svcLock # "free"
          THEN /\ svcTask' = [svcTask EXCEPT ![o] = "done"]
               /\ UNCHANGED svcLock
          ELSE /\ svcTask' = [svcTask EXCEPT ![o] = "body"]
               /\ svcLock' = IF svcClient THEN o ELSE svcLock
    /\ UNCHANGED <<svcRunning, svcClient, svcStop>>
    /\ UNCHANGED nonSvcVars

\* the body ends (by return, exception or cancellation); the finally block
\* calls release_sync_lock
SvcTaskFinishes(o) ==
    /\ svcTask[o] = "body"
    /\ svcTask' = [svcTask EXCEPT ![o] = "done"]
    /\ svcLock' = SvcLockAfterRelease(svcClient, svcLock)
    /\ UNCHANGED <<svcRunning, svcClient, svcStop>>
    /\ UNCHANGED nonSvcVars

\* stop(), first part: scheduler.shutdown(wait=True); scheduler = None.  The
\* call is synchronous and made from a coroutine, so no other coroutine of
\* the loop runs during it; the task made by create_task and the API's call
\* are not known to the scheduler.
SvcStopShutdown ==
    /\ svcRunning
    /\ svcStop = "idle"
    /\ svcStop' = "disconnecting"
    /\ UNCHANGED <<svcRunning, svcClient, svcLock, svcTask>>
    /\ UNCHANGED nonSvcVars

\* stop(), second part: await state_manager.disconnect(); is_running = False
SvcStopDisconnect ==
    /\ svcStop = "disconnecting"
    /\ svcClient' = FALSE
    /\ svcRunning' = FALSE
    /\ svcStop' = "returned"
    /\ UNCHANGED <<svcLock, svcTask>>
    /\ UNCHANGED nonSvcVars

SvcNext ==
    \/ SvcStart
    \/ SvcSchedulerFires
    \/ SvcApiCalls
    \/ \E o \in Origins : SvcTaskEnters(o)
    \/ \E o \in Origins : SvcTaskFinishes(o)
    \/ SvcStopShutdown
    \/ SvcStopDisconnect

(***************************************************************************)
(* IndexingService.initialize / cleanup (indexing_service.py 23-52) with   *)
(* EmbeddingService.initialize / cleanup and VectorStoreService.connect /  *)
(* disconnect.                                                             *)
(***************************************************************************)
BootFresh ==
    [ready |-> FALSE,       \* IndexingService._initialized
     embReady |-> FALSE,    \* EmbeddingService._initialized
     model |-> FALSE,       \* the local provider's model is loaded
     collection |-> FALSE,  \* VectorStoreService.collection is set
     shut |-> FALSE,        \* VectorStoreService.executor has been shut down
     cached |-> FALSE]      \* the embedding cache holds entries

\* EmbeddingService.initialize: a no-op once _initialized; else the provider
\* is initialized, which may raise
EmbeddingInitialize(st, ok) ==
    IF st.embReady THEN [st |-> st, raised |-> FALSE]
    ELSE IF ok THEN [st |-> [st EXCEPT !.embReady = TRUE, !.model = TRUE], raised |-> FALSE]
    ELSE [st |-> st, raised |-> TRUE]

\* VectorStoreService.connect: client and collection created through the
\* executor, or raises; a shut-down executor accepts no work
VectorStoreConnect(st, ok) ==
    IF ok /\ ~st.shut THEN [st |-> [st EXCEPT !.collection = TRUE], raised |-> FALSE]
    ELSE [st |-> st, raised |-> TRUE]

\* EmbeddingService.cleanup: local_provider.cleanup(); cache.clear()
EmbeddingCleanup(st) == [st EXCEPT !.model = FALSE, !.cached = FALSE]

\* VectorStoreService.disconnect: client = None; collection = None;
\* executor.shutdown(wait=True)
VectorStoreDisconnect(st) == [st EXCEPT !.collection = FALSE, !.shut = TRUE]

\* the dependency calls of initialize(), in program order
InitializeCalls == <<"embedding_service.initialize", "vector_store_service.connect">>

\* the dependency calls of cleanup(), in program order
CleanupCalls == <<"embedding_service.cleanup", "vector_store_service.disconnect">>

\* IndexingService.initialize: state after and calls made
Initialize(st, embOk, vsOk) ==
    IF st.ready THEN [st |-> st, calls |-> <<>>, raised |-> FALSE]
    ELSE IF EmbeddingInitialize(st, embOk).raised
        THEN [st |-> st, calls |-> SubSeq(InitializeCalls, 1, 1), raised |-> TRUE]
    ELSE IF VectorStoreConnect(EmbeddingInitialize(st, embOk).st, vsOk).raised
        THEN [st |-> EmbeddingInitialize(st, embOk).st, calls |-> InitializeCalls, raised |-> TRUE]
    ELSE [st |-> [VectorStoreConnect(EmbeddingInitialize(st, embOk).st, vsOk).st
                     EXCEPT !.ready = TRUE],
          calls |-> InitializeCalls, raised |-> FALSE]

\* IndexingService.cleanup
Cleanup(st) ==
    [st |-> [VectorStoreDisconnect(EmbeddingCleanup(st)) EXCEPT !.ready = FALSE],
     calls |-> CleanupCalls, raised |-> FALSE]

BootEntry(op, before, out) ==
    [op |-> op, before |-> before, after |-> out.st, calls |-> out.calls,
     raised |-> out.raised]

\* the last MaxHistory calls, newest last
Remember(hist, e) ==
    IF Len(hist) < MaxHistory THEN Append(hist, e) ELSE Append(Tail(hist), e)

BootStart ==
    /\ bootState = BootFresh
    /\ bootHist = <<>>

BootInitialize ==
    /\ \E embOk \in BOOLEAN, vsOk \in BOOLEAN :
         /\ bootState' = Initialize(bootState, embOk, vsOk).st
         /\ bootHist' = Remember(bootHist,
                BootEntry("initialize", bootState, Initialize(bootState, embOk, vsOk)))
    /\ UNCHANGED nonBootVars

BootCleanup ==
    /\ bootState' = Cleanup(bootState).st
    /\ bootHist' = Remember(bootHist, BootEntry("cleanup", bootState, Cleanup(bootState)))
    /\ UNCHANGED nonBootVars

\* an embedding is computed on the initialized service and cached
BootEmbed ==
    /\ bootState.ready
    /\ bootState.embReady
    /\ bootState' = [bootState EXCEPT !.cached = TRUE]
    /\ bootHist' = Remember(bootHist, BootEntry("get_embedding", bootState,
            [st |-> [bootState EXCEPT !.cached = TRUE], calls |-> <<>>, raised |-> FALSE]))
    /\ UNCHANGED nonBootVars

BootNext ==
    \/ BootInitialize
    \/ BootCleanup
    \/ BootEmbed

(***************************************************************************)
(* SolarWindsService.fetch_all_solutions (solarwinds.py 237-298) against a *)
(* provider that holds records 1..n and serves them by limit / offset.     *)
(***************************************************************************)
MinOf(a, b) == IF a < b THEN a ELSE b

\* the provider's page: records offset+1 .. offset+limit as far as they exist
ProviderPage(n, limit, offset) ==
    [k \in 1..(IF offset >= n THEN 0 ELSE MinOf(limit, n - offset)) |-> offset + k]

\* batch.get("totalCount"): absent when the provider does not report it
TotalCount(args) == IF args.total THEN args.n ELSE 0

\* a loop that never looks at the total
ReachedTotalIgnored(total_count, count) == FALSE

\* "if total_count and len(all_solutions) >= total_count: break"
ReachedTotal(total_count, count) == total_count # 0 /\ count >= total_count

FaStart ==
    /\ faPc = "idle"
    /\ faArgs = [n |-> 0, total |-> FALSE, batch |-> 1]
    /\ faOffset = 0
    /\ faAll = <<>>
    /\ faRequests = 0

\* fetch_all_solutions(batch_size) is called: all_solutions = [], offset = 0
FaCall ==
    /\ faPc # "loop"
    /\ \E n \in 0..MaxRecords, total \in BOOLEAN, batch \in 1..MaxBatchSize :
         faArgs' = [n |-> n, total |-> total, batch |-> batch]
    /\ faPc' = "loop"
    /\ faOffset' = 0
    /\ faAll' = <<>>
    /\ faRequests' = 0
    /\ UNCHANGED nonFaVars

\* one iteration of the loop whose get_solutions call returns a page
FaPage ==
    /\ faPc = "loop"
    /\ faRequests' = faRequests + 1
    /\ IF ProviderPage(faArgs.n, faArgs.batch, faOffset) = <<>>
          THEN /\ faPc' = "returned"
               /\ UNCHANGED <<faAll, faOffset>>
          ELSE /\ faAll' = faAll \o ProviderPage(faArgs.n, faArgs.batch, faOffset)
               /\ IF ReachedTotal(TotalCount(faArgs),
                                  Len(faAll \o ProviderPage(faArgs.n, faArgs.batch, faOffset)))
                     THEN /\ faPc' = "returned"
                          /\ UNCHANGED faOffset
                     ELSE /\ faPc' = "loop"
                          /\ faOffset' = faOffset + faArgs.batch
    /\ UNCHANGED faArgs
    /\ UNCHANGED nonFaVars

\* one iteration whose get_solutions call raises: logged and re-raised, the
\* records accumulated so far are dropped with the frame
FaPageFails ==
    /\ faPc = "loop"
    /\ faRequests' = faRequests + 1
    /\ faPc' = "raised"
    /\ faAll' = <<>>
    /\ UNCHANGED <<faArgs, faOffset>>
    /\ UNCHANGED nonFaVars

FaNext ==
    \/ FaCall
    \/ FaPage
    \/ FaPageFails

(***************************************************************************)
(* EmbeddingService.get_embeddings_batch (embedding.py 336-431) on an      *)
(* initialized service.  A vector is named by the text it embeds and the   *)
(* provider that computed it.                                              *)
(***************************************************************************)
BatchTexts == 0..NumBatchTexts      \* 0: a text that is empty once stripped
TextLists == UNION {[1..n -> BatchTexts] : n \in 0..MaxTexts}
Embedding(text, prov) == [text |-> text, prov |-> prov]
NoEmbedding == Embedding(0, "none")

\* "texts = [text.strip() for text in texts if text.strip()]"
CleanTexts(texts) == SelectSeq(texts, LAMBDA t : t # 0)

\* EmbeddingCache.get on this cache
CachedEmbedding(c, text, prov) ==
    IF GetCacheKey(text, prov) \in KeysOf(c)
        THEN c[IndexOfKey(c, GetCacheKey(text, prov))].emb
        ELSE NoEmbedding

\* "for text, embedding in zip(uncached_texts, new_embeddings):
\*      self.cache.set(text, provider, embedding)"
RECURSIVE CacheAll(_, _, _)
CacheAll(c, sent, prov) ==
    IF sent = <<>> THEN c
    ELSE CacheAll(CacheSet(c, GetCacheKey(Head(sent), prov),
                           Embedding(Head(sent), prov), 0),
                  Tail(sent), prov)

\* the (index, embedding) pairs left as they were appended: hits first
KeepAppendOrder(pairs) == pairs

\* "batch_embeddings.sort(key=lambda x: x[0])"
SortByIndex(pairs) ==
    [k \in 1..Len(pairs) |->
        pairs[CHOOSE i \in 1..Len(pairs) :
                Cardinality({j \in 1..Len(pairs) : pairs[j].idx < pairs[i].idx}) = k - 1]]

\* indices of the slice that hit / missed the cache
HitIndices(c, batch, useCache, prov) ==
    {j \in 1..Len(batch) : useCache /\ CachedEmbedding(c, batch[j], prov) # NoEmbedding}

\* the elements of seq at the indices in idxs, in index order
RECURSIVE Pick(_, _, _)
Pick(seq, idxs, j) ==
    IF j > Len(seq) THEN <<>>
    ELSE (IF j \in idxs THEN <<[idx |-> j, text |-> seq[j]]>> ELSE <<>>) \o Pick(seq, idxs, j + 1)

\* one slice: its embeddings in slice order, the texts sent, the cache after;
\* po / fo: whether the primary / the fallback provider's batch call works
Slice(c, batch, useCache, prov, po, fo) ==
    LET hits == HitIndices(c, batch, useCache, prov)
        hitPairs == [k \in 1..Len(Pick(batch, hits, 1)) |->
                        [idx |-> Pick(batch, hits, 1)[k].idx,
                         emb |-> CachedEmbedding(c, Pick(batch, hits, 1)[k].text, prov)]]
        missed == Pick(batch, (1..Len(batch)) \ hits, 1)
        sent == [k \in 1..Len(missed) |-> missed[k].text]
        used == IF po THEN prov ELSE FallbackProvider(prov)
        newPairs == [k \in 1..Len(missed) |->
                        [idx |-> missed[k].idx, emb |-> Embedding(missed[k].text, used)]]
        sorted == SortByIndex(hitPairs \o newPairs)
    IN  IF sent # <<>> /\ ~po /\ ~fo
        THEN [raised |-> TRUE, vecs |-> <<>>, cache |-> c, hits |-> <<>>,
              sent |-> <<[texts |-> sent, prov |-> prov],
                         [texts |-> sent, prov |-> FallbackProvider(prov)]>>]
        ELSE [raised |-> FALSE,
              vecs |-> [k \in 1..Len(sorted) |-> sorted[k].emb],
              hits |-> [j \in 1..Len(batch) |-> j \in hits],
              cache |-> IF useCache THEN CacheAll(c, sent, used) ELSE c,
              sent |-> IF sent = <<>> THEN <<>>
                       ELSE IF po THEN <<[texts |-> sent, prov |-> prov]>>
                       ELSE <<[texts |-> sent, prov |-> prov],
                              [texts |-> sent, prov |-> FallbackProvider(prov)]>>]

\* "for i in range(0, len(texts), batch_size)": the slices from position i on;
\* outcomes[k]: how the providers behave for the k-th slice
RECURSIVE Slices(_, _, _, _, _, _, _)
Slices(c, texts, i, size, useCache, prov, outcomes) ==
    IF i > Len(texts)
    THEN [raised |-> FALSE, vecs |-> <<>>, cache |-> c, hits |-> <<>>, sent |-> <<>>]
    ELSE LET batch == SubSeq(texts, i, MinOf(i + size - 1, Len(texts)))
             k == ((i - 1) \div size) + 1
             one == Slice(c, batch, useCache, prov, outcomes[k].po, outcomes[k].fo)
             rest == Slices(one.cache, texts, i + size, size, useCache, prov, outcomes)
         IN  IF one.raised
             THEN [raised |-> TRUE, vecs |-> <<>>, cache |-> one.cache, hits |-> <<>>,
                   sent |-> one.sent]
             ELSE [raised |-> rest.raised,
                   vecs |-> IF rest.raised THEN <<>> ELSE one.vecs \o rest.vecs,
                   hits |-> IF rest.raised THEN <<>> ELSE one.hits \o rest.hits,
                   cache |-> rest.cache,
                   sent |-> one.sent \o rest.sent]

\* get_embeddings_batch(texts, use_cache, batch_size)
GetEmbeddingsBatchResult(c, texts, size, useCache, prov, outcomes) ==
    Slices(c, CleanTexts(texts), 1, size, useCache, prov, outcomes)

\* per slice: the primary works, only the fallback works, or neither
ProviderBehaviours ==
    {[po |-> TRUE, fo |-> TRUE], [po |-> FALSE, fo |-> TRUE], [po |-> FALSE, fo |-> FALSE]}
\* len(range(0, len(texts), batch_size))
NumSlices(texts, size) == (Len(texts) + size - 1) \div size
SliceOutcomes(texts, size) == [1..NumSlices(CleanTexts(texts), size) -> ProviderBehaviours]

EbStart ==
    /\ ebPrimary \in EmbProviders
    /\ ebCache = <<>>
    /\ ebCall = [texts |-> <<>>, useCache |-> FALSE, size |-> 1]
    /\ ebRet = [raised |-> FALSE, vecs |-> <<>>, hits |-> <<>>, sent |-> <<>>]

EbRest ==
    /\ ebPrimary = "local"
    /\ ebCache = <<>>
    /\ ebCall = [texts |-> <<>>, useCache |-> FALSE, size |-> 1]
    /\ ebRet = [raised |-> FALSE, vecs |-> <<>>, hits |-> <<>>, sent |-> <<>>]

GetEmbeddingsBatch ==
    /\ \E texts \in TextLists, useCache \in BOOLEAN, size \in 1..MaxSliceSize :
       \E outcomes \in SliceOutcomes(texts, size) :
         LET r == GetEmbeddingsBatchResult(ebCache, texts, size, useCache, ebPrimary, outcomes)
         IN  /\ ebCall' = [texts |-> texts, useCache |-> useCache, size |-> size]
             /\ ebRet' = [raised |-> r.raised, vecs |-> r.vecs, hits |-> r.hits,
                          sent |-> r.sent]
             /\ ebCache' = r.cache
    /\ UNCHANGED ebPrimary
    /\ UNCHANGED nonEbVars

\* EmbeddingCache.clear
EbClear ==
    /\ ebCache # <<>>
    /\ ebCache' = <<>>
    /\ UNCHANGED <<ebPrimary, ebCall, ebRet>>
    /\ UNCHANGED nonEbVars

EbNext ==
    \/ GetEmbeddingsBatch
    \/ EbClear

(***************************************************************************)
(* LLMService.generate_response over the OpenRouter provider (llm.py       *)
(* 56-106, 349-390).  OpenRouterProvider.generate_response is wrapped by   *)
(* @retry(stop=stop_after_attempt(3), wait=wait_exponential(multiplier=1,  *)
(* min=4, max=10)): the decorator names no retry predicate, so every       *)
(* exception is retried, and it does not set reraise, so when the stop     *)
(* condition is met the wrapper raises tenacity's RetryError.              *)
(***************************************************************************)
StopAfterAttempt == 3
WaitMultiplier == 1
WaitMin == 4
WaitMax == 10

\* what chat.completions.create does in one attempt
CompletionOutcomes == {"ok", "timeout", "rate_limited", "api_error"}

NoError == [kind |-> "", msg |-> ""]
\* raise LLMError(...): LLMError is LLMProviderError (exceptions.py 42-50)
LLMError(msg) == [kind |-> "LLMProviderError", msg |-> msg]
\* tenacity: raise RetryError(last_attempt) from the last exception
RetryError(last) == [kind |-> "RetryError", msg |-> last.msg]

\* wait_exponential: multiplier * 2 ** (attempt_number - 1), clamped to [min, max]
WaitExponential(attempt) ==
    LET exp == WaitMultiplier * (2 ^ (attempt - 1))
    IN  IF exp < WaitMin THEN WaitMin ELSE IF exp > WaitMax THEN WaitMax ELSE exp

\* stop_after_attempt(3)
StopNow(attempt) == attempt >= StopAfterAttempt

\* OpenRouterProvider.initialize
ProviderInitialize(key) ==
    IF key THEN [raised |-> NoError, client |-> TRUE]
    ELSE [raised |-> LLMError("OpenRouter API key not configured"), client |-> FALSE]

\* the body of OpenRouterProvider.generate_response, one attempt
ProviderGenerate(key, client, o) ==
    LET init == IF client THEN [raised |-> NoError, client |-> TRUE]
                ELSE ProviderInitialize(key)
    IN  IF init.raised # NoError THEN init
        ELSE IF o = "ok" THEN [raised |-> NoError, client |-> TRUE]
        ELSE [raised |-> LLMError(o), client |-> TRUE]

LlmStart ==
    /\ llmKey \in BOOLEAN
    /\ llmProvider = FALSE
    /\ llmClient = FALSE
    /\ llmStream = FALSE
    /\ llmPc = "idle"
    /\ llmAttempt = 0
    /\ llmSlept = 0
    /\ llmLog = <<>>
    /\ llmErr = NoError

LlmRest == LlmStart /\ llmKey

\* LLMService.generate_response up to the call of the provider
LlmGenerateResponse ==
    /\ llmPc \in {"idle", "returned", "raised"}
    /\ llmStream' \in BOOLEAN
    /\ LET init == IF llmProvider THEN [raised |-> NoError, client |-> llmClient]
                   ELSE ProviderInitialize(llmKey)
       IN  /\ llmProvider' = TRUE
           /\ llmClient' = init.client
           /\ llmErr' = init.raised
           /\ llmPc' = IF init.raised # NoError THEN "raised" ELSE "attempt"
           /\ llmAttempt' = IF init.raised # NoError THEN 0 ELSE 1
    /\ llmSlept' = 0
    /\ llmLog' = <<>>
    /\ UNCHANGED llmKey
    /\ UNCHANGED nonLlmVars

\* one attempt of the wrapped function, and what the wrapper and
\* LLMService.generate_response (log and raise) make of it
LlmAttempt ==
    /\ llmPc = "attempt"
    /\ \E o \in CompletionOutcomes :
        LET out == ProviderGenerate(llmKey, llmClient, o)
        IN  /\ llmClient' = out.client
            /\ llmLog' = Append(llmLog, out.raised.msg)
            /\ IF out.raised = NoError
               THEN llmPc' = "returned" /\ llmErr' = NoError
               ELSE IF StopNow(llmAttempt)
               THEN llmPc' = "raised" /\ llmErr' = RetryError(out.raised)
               ELSE llmPc' = "sleep" /\ llmErr' = NoError
    /\ UNCHANGED <<llmKey, llmProvider, llmStream, llmAttempt, llmSlept>>
    /\ UNCHANGED nonLlmVars

\* the wait between two attempts is over
LlmWake ==
    /\ llmPc = "sleep"
    /\ llmSlept' = llmSlept + WaitExponential(llmAttempt)
    /\ llmAttempt' = llmAttempt + 1
    /\ llmPc' = "attempt"
    /\ UNCHANGED <<llmKey, llmProvider, llmClient, llmStream, llmLog, llmErr>>
    /\ UNCHANGED nonLlmVars

LlmNext ==
    \/ LlmGenerateResponse
    \/ LlmAttempt
    \/ LlmWake

(***************************************************************************)
(* The sync lock with its expiry (sync_service.py 82-115, 260-275,         *)
(* 380-382), the store reachable.  Redis removes the key once its expiry   *)
(* time is reached; DELETE removes whatever key is there.                  *)
(***************************************************************************)
LockTimeoutSeconds == 3600

LockCalls == 1..NumLockCalls

NoKey == [owner |-> 0, expireAt |-> 0]
NoDelete == [by |-> 0, owner |-> 0]

\* the key as the server sees it at time t
KeyAt(key, t) == IF key.owner # 0 /\ t < key.expireAt THEN key ELSE NoKey

\* SET lock_key value ex=timeout_seconds nx=True by call c at time t
SetNxEx(key, c, t) ==
    IF KeyAt(key, t) = NoKey
    THEN [ok |-> TRUE, key |-> [owner |-> c, expireAt |-> t + LockTimeoutSeconds]]
    ELSE [ok |-> FALSE, key |-> key]

\* DELETE lock_key
DeleteKey(key) == NoKey

LkStart ==
    /\ lkNow = 0
    /\ lkKey = NoKey
    /\ lkForce \in [LockCalls -> BOOLEAN]
    /\ lkPc = [c \in LockCalls |-> "check"]
    /\ lkDel = NoDelete

LkRest == LkStart /\ lkForce = [c \in LockCalls |-> FALSE]

\* lines 260-265: if not force and await is_sync_in_progress(): return skipped
LkCheckInProgress(c) ==
    /\ lkPc[c] = "check"
    /\ lkPc' = [lkPc EXCEPT ![c] =
                  IF ~lkForce[c] /\ KeyAt(lkKey, lkNow) # NoKey THEN "done" ELSE "acquire"]
    /\ UNCHANGED <<lkNow, lkKey, lkForce, lkDel>>
    /\ UNCHANGED nonLkVars

\* lines 268-275: acquire_sync_lock, or return failed
LkAcquire(c) ==
    /\ lkPc[c] = "acquire"
    /\ LET r == SetNxEx(lkKey, c, lkNow) IN
       /\ lkKey' = r.key
       /\ lkPc' = [lkPc EXCEPT ![c] = IF r.ok THEN "body" ELSE "done"]
    /\ UNCHANGED <<lkNow, lkForce, lkDel>>
    /\ UNCHANGED nonLkVars

\* lines 380-382: finally: release_sync_lock()
LkRelease(c) ==
    /\ lkPc[c] = "body"
    /\ lkDel' = [by |-> c, owner |-> KeyAt(lkKey, lkNow).owner]
    /\ lkKey' = DeleteKey(lkKey)
    /\ lkPc' = [lkPc EXCEPT ![c] = "done"]
    /\ UNCHANGED <<lkNow, lkForce>>
    /\ UNCHANGED nonLkVars

\* the scheduler or a client calls trigger_sync again
LkCallAgain(c) ==
    /\ lkPc[c] = "done"
    /\ \E f \in BOOLEAN : lkForce' = [lkForce EXCEPT ![c] = f]
    /\ lkPc' = [lkPc EXCEPT ![c] = "check"]
    /\ UNCHANGED <<lkNow, lkKey, lkDel>>
    /\ UNCHANGED nonLkVars

\* time passes
LkTick ==
    /\ lkNow < MaxLockClock
    /\ lkNow' = lkNow + LockClockStep
    /\ UNCHANGED <<lkKey, lkForce, lkPc, lkDel>>
    /\ UNCHANGED nonLkVars

LkNext ==
    \/ \E c \in LockCalls : LkCheckInProgress(c)
    \/ \E c \in LockCalls : LkAcquire(c)
    \/ \E c \in LockCalls : LkRelease(c)
    \/ \E c \in LockCalls : LkCallAgain(c)
    \/ LkTick

(***************************************************************************)
(* Concurrent first use of the indexing service (indexing_service.py       *)
(* 23-42, 314-315; embedding.py 138-153, 232-271; vector_store.py 29-55),  *)
(* with the local model as the embedding provider and no OpenAI key.  A    *)
(* coroutine runs alone up to its next await of the thread pool; the       *)
(* _initialized flags are set only after those awaits.                     *)
(***************************************************************************)
FirstRequests == 1..NumFirstRequests

\* if self._initialized: return -- the guard of both initialize() methods
AlreadyInitialized(flag) == flag

LzStart ==
    /\ lzIxInit = FALSE
    /\ lzEmbInit = FALSE
    /\ lzModel = FALSE
    /\ lzStore = "none"
    /\ lzPc = [r \in FirstRequests |-> "start"]
    /\ lzBodies = 0
    /\ lzLoads = 0
    /\ lzConnects = 0

LzRest == LzStart

\* search_solutions line 314-315, IndexingService.initialize up to its first
\* await of the thread pool: the model load, or the creation of the client
\* when the embedding service is initialized already
LzEnter(r) ==
    /\ lzPc[r] = "start"
    /\ IF AlreadyInitialized(lzIxInit)
       THEN /\ lzPc' = [lzPc EXCEPT ![r] = "use"]
            /\ UNCHANGED <<lzBodies, lzLoads, lzConnects>>
       ELSE /\ lzBodies' = lzBodies + 1
            /\ IF AlreadyInitialized(lzEmbInit)
               THEN /\ lzPc' = [lzPc EXCEPT ![r] = "create_client"]
                    /\ lzConnects' = lzConnects + 1
                    /\ UNCHANGED lzLoads
               ELSE /\ lzPc' = [lzPc EXCEPT ![r] = "load_model"]
                    /\ lzLoads' = lzLoads + 1
                    /\ UNCHANGED lzConnects
    /\ UNCHANGED <<lzIxInit, lzEmbInit, lzModel, lzStore>>
    /\ UNCHANGED nonLzVars

\* the model load returns or raises; EmbeddingService.initialize sets its
\* flag and VectorStoreService.connect starts
LzModelLoaded(r) ==
    /\ lzPc[r] = "load_model"
    /\ \E ok \in BOOLEAN :
        IF ok
        THEN /\ lzModel' = TRUE
             /\ lzEmbInit' = TRUE
             /\ lzConnects' = lzConnects + 1
             /\ lzPc' = [lzPc EXCEPT ![r] = "create_client"]
        ELSE /\ lzPc' = [lzPc EXCEPT ![r] = "raised"]
             /\ UNCHANGED <<lzModel, lzEmbInit, lzConnects>>
    /\ UNCHANGED <<lzIxInit, lzStore, lzBodies, lzLoads>>
    /\ UNCHANGED nonLzVars

\* connect: the client is created, or the creation raises
LzClientCreated(r) ==
    /\ lzPc[r] = "create_client"
    /\ \E ok \in BOOLEAN :
        IF ok
        THEN /\ lzStore' = "client"
             /\ lzPc' = [lzPc EXCEPT ![r] = "get_collection"]
        ELSE /\ lzPc' = [lzPc EXCEPT ![r] = "raised"]
             /\ UNCHANGED lzStore
    /\ UNCHANGED <<lzIxInit, lzEmbInit, lzModel, lzBodies, lzLoads, lzConnects>>
    /\ UNCHANGED nonLzVars

\* connect: the collection is there, or get_or_create raises; then
\* IndexingService.initialize sets its flag and the request goes on
LzCollectionReady(r) ==
    /\ lzPc[r] = "get_collection"
    /\ \E ok \in BOOLEAN :
        IF ok
        THEN /\ lzStore' = "collection"
             /\ lzIxInit' = TRUE
             /\ lzPc' = [lzPc EXCEPT ![r] = "use"]
        ELSE /\ lzPc' = [lzPc EXCEPT ![r] = "raised"]
             /\ UNCHANGED <<lzStore, lzIxInit>>
    /\ UNCHANGED <<lzEmbInit, lzModel, lzBodies, lzLoads, lzConnects>>
    /\ UNCHANGED nonLzVars

\* the request embeds its query and searches the store
LzUse(r) ==
    /\ lzPc[r] = "use"
    /\ lzPc' = [lzPc EXCEPT ![r] = "done"]
    /\ UNCHANGED <<lzIxInit, lzEmbInit, lzModel, lzStore, lzBodies, lzLoads, lzConnects>>
    /\ UNCHANGED nonLzVars

LzNext ==
    \/ \E r \in FirstRequests : LzEnter(r)
    \/ \E r \in FirstRequests : LzModelLoaded(r)
    \/ \E r \in FirstRequests : LzClientCreated(r)
    \/ \E r \in FirstRequests : LzCollectionReady(r)
    \/ \E r \in FirstRequests : LzUse(r)

(***************************************************************************)
(* Specifications: one per component, the other components at rest.        *)
(***************************************************************************)
SyncInit == SyncStart /\ CacheStart /\ ChatStart /\ IxStart /\ ClientRest /\ MgrStart /\ EmbRest /\ ApiRest /\ VsStart /\ LifeStart /\ SvcStartState /\ BootStart /\ FaStart /\ EbRest /\ LlmRest /\ LkRest /\ LzRest
SpecSync == SyncInit /\ [][SyncNext]_vars

CacheInit == CacheStart /\ SyncRest /\ ChatStart /\ IxStart /\ ClientRest /\ MgrStart /\ EmbRest /\ ApiRest /\ VsStart /\ LifeStart /\ SvcStartState /\ BootStart /\ FaStart /\ EbRest /\ LlmRest /\ LkRest /\ LzRest
SpecCache == CacheInit /\ [][CacheNext]_vars

ChatInit == ChatStart /\ SyncRest /\ CacheStart /\ IxStart /\ ClientRest /\ MgrStart /\ EmbRest /\ ApiRest /\ VsStart /\ LifeStart /\ SvcStartState /\ BootStart /\ FaStart /\ EbRest /\ LlmRest /\ LkRest /\ LzRest
SpecChat == ChatInit /\ [][ChatNext]_vars

IxInit == IxStart /\ SyncRest /\ CacheStart /\ ChatStart /\ ClientRest /\ MgrStart /\ EmbRest /\ ApiRest /\ VsStart /\ LifeStart /\ SvcStartState /\ BootStart /\ FaStart /\ EbRest /\ LlmRest /\ LkRest /\ LzRest
SpecIndex == IxInit /\ [][IxNext]_vars

ClientInit == ClientStart /\ SyncRest /\ CacheStart /\ ChatStart /\ IxStart /\ MgrStart /\ EmbRest /\ ApiRest /\ VsStart /\ LifeStart /\ SvcStartState /\ BootStart /\ FaStart /\ EbRest /\ LlmRest /\ LkRest /\ LzRest
SpecClient == ClientInit /\ [][ClientNext]_vars

MgrInit == MgrStart /\ SyncRest /\ CacheStart /\ ChatStart /\ IxStart /\ ClientRest /\ EmbRest /\ ApiRest /\ VsStart /\ LifeStart /\ SvcStartState /\ BootStart /\ FaStart /\ EbRest /\ LlmRest /\ LkRest /\ LzRest
SpecManager == MgrInit /\ [][MgrNext]_vars

EmbInit == EmbStart /\ SyncRest /\ CacheStart /\ ChatStart /\ IxStart /\ ClientRest /\ MgrStart /\ ApiRest /\ VsStart /\ LifeStart /\ SvcStartState /\ BootStart /\ FaStart /\ EbRest /\ LlmRest /\ LkRest /\ LzRest
SpecEmbed == EmbInit /\ [][EmbNext]_vars

ApiInit == ApiStart /\ SyncRest /\ CacheStart /\ ChatStart /\ IxStart /\ ClientRest /\ MgrStart /\ EmbRest /\ VsStart /\ LifeStart /\ SvcStartState /\ BootStart /\ FaStart /\ EbRest /\ LlmRest /\ LkRest /\ LzRest
SpecApi == ApiInit /\ [][ApiNext]_vars

VsInit == VsStart /\ SyncRest /\ CacheStart /\ ChatStart /\ IxStart /\ ClientRest /\ MgrStart /\ EmbRest /\ ApiRest /\ LifeStart /\ SvcStartState /\ BootStart /\ FaStart /\ EbRest /\ LlmRest /\ LkRest /\ LzRest
SpecStore == VsInit /\ [][VsNext]_vars

LifeInit == LifeStart /\ SyncRest /\ CacheStart /\ ChatStart /\ IxStart /\ ClientRest /\ MgrStart /\ EmbRest /\ ApiRest /\ VsStart /\ SvcStartState /\ BootStart /\ FaStart /\ EbRest /\ LlmRest /\ LkRest /\ LzRest
SpecLifespan == LifeInit /\ [][LifeNext]_vars

SvcInit == SvcStartState /\ SyncRest /\ CacheStart /\ ChatStart /\ IxStart /\ ClientRest /\ MgrStart /\ EmbRest /\ ApiRest /\ VsStart /\ LifeStart /\ BootStart /\ FaStart /\ EbRest /\ LlmRest /\ LkRest /\ LzRest
SpecService == SvcInit /\ [][SvcNext]_vars

BootInit == BootStart /\ SyncRest /\ CacheStart /\ ChatStart /\ IxStart /\ ClientRest /\ MgrStart /\ EmbRest /\ ApiRest /\ VsStart /\ LifeStart /\ SvcStartState /\ FaStart /\ EbRest /\ LlmRest /\ LkRest /\ LzRest
SpecBoot == BootInit /\ [][BootNext]_vars

FaInit == FaStart /\ SyncRest /\ CacheStart /\ ChatStart /\ IxStart /\ ClientRest /\ MgrStart /\ EmbRest /\ ApiRest /\ VsStart /\ LifeStart /\ SvcStartState /\ BootStart /\ EbRest /\ LlmRest /\ LkRest /\ LzRest
\* every iteration of the loop ends: the request returns or raises
SpecFetch == FaInit /\ [][FaNext]_vars /\ WF_vars(FaPage \/ FaPageFails)

EbInit == EbStart /\ SyncRest /\ CacheStart /\ ChatStart /\ IxStart /\ ClientRest /\ MgrStart /\ EmbRest /\ ApiRest /\ VsStart /\ LifeStart /\ SvcStartState /\ BootStart /\ FaStart /\ LlmRest /\ LkRest /\ LzRest
SpecBatch == EbInit /\ [][EbNext]_vars

LlmInit == LlmStart /\ SyncRest /\ CacheStart /\ ChatStart /\ IxStart /\ ClientRest /\ MgrStart /\ EmbRest /\ ApiRest /\ VsStart /\ LifeStart /\ SvcStartState /\ BootStart /\ FaStart /\ EbRest /\ LkRest /\ LzRest
SpecLlm == LlmInit /\ [][LlmNext]_vars

LkInit == LkStart /\ SyncRest /\ CacheStart /\ ChatStart /\ IxStart /\ ClientRest /\ MgrStart /\ EmbRest /\ ApiRest /\ VsStart /\ LifeStart /\ SvcStartState /\ BootStart /\ FaStart /\ EbRest /\ LlmRest /\ LzRest
SpecLock == LkInit /\ [][LkNext]_vars

LzInit == LzStart /\ SyncRest /\ CacheStart /\ ChatStart /\ IxStart /\ ClientRest /\ MgrStart /\ EmbRest /\ ApiRest /\ VsStart /\ LifeStart /\ SvcStartState /\ BootStart /\ FaStart /\ EbRest /\ LlmRest /\ LkRest
SpecLazy == LzInit /\ [][LzNext]_vars

(***************************************************************************)
(* Claims about the sync lock and the sync statistics.                     *)
(***************************************************************************)
InBody(p) == pc[p] \in {"mockcheck", "mock", "connect", "fetch", "index",
                        "except", "release"}
Returned(p) == pc[p] = "done"

C2_OtherCallSkipped ==
    (\A p \in Procs : ~force[p]) =>
        \A q \in Procs :
            (Returned(q) /\ ~held[q]) =>
                (res[q].status = "skipped" /\ wrote[q] = "none")

C10_SizeBound == Len(cache) <= CacheMaxSize

C10_EvictsOldest ==
    (Len(cache) = CacheMaxSize /\ KeysOf(cache') \ KeysOf(cache) # {}) =>
        \E o \in KeysOf(cache) :
            /\ KeysOf(cache) \ KeysOf(cache') = {o}
            /\ \A x \in KeysOf(cache) : TsOf(cache, o) <= TsOf(cache, x)
            /\ Len(cache') = CacheMaxSize

C4_ChatAlwaysAnswers ==
    (chatReq.sent /\ ChatRequestValid(chatReq.qlen)) =>
        /\ chatResp.code = 200
        /\ chatResp.answer # NoneValue
        /\ chatResp.answer.len > 0
        /\ chatResp.sources \in 0..TopK
        /\ chatResp.query_id = "uuid4"
        /\ chatResp.response_time_ms \in Nat

\* C15: a ChatRequest whose query is empty or only whitespace is rejected by
\* schema validation: POST /chat answers HTTP 422 and neither retrieval nor
\* generation is invoked.
C15_BlankQueryRejected ==
    (chatReq.sent /\ chatReq.blank) =>
        (chatResp.code = 422 /\ ~chatReq.searched)

(***************************************************************************)
(* IndexingService                                                         *)
(***************************************************************************)
WriteOps == {"index", "batch", "update", "remove"}

\* C6: index_solution, index_solutions_batch, update_solution_index and
\* remove_solution_from_index never raise to their caller, whatever fails:
\* text processing, embedding, the vector store or the lazy initialization.
C6_WritePathsNeverRaise ==
    ixCall.op \in WriteOps => ixOut.raised = ""

\* a fetched record that has a recognized id field and passes SolutionRecord
Normalizable(raw) ==
    /\ raw.id # NoId \/ raw.solutionId # NoId
    /\ ~ParseRaises(raw)

NormalizableIds(raws) ==
    {SolutionIdOf(raws[i]) : i \in {j \in DOMAIN raws : Normalizable(raws[j])}}

\* C7: when a fetched batch holds records that cannot be normalized (such as
\* one with neither id nor solutionId), the sync is not aborted, the valid
\* records are indexed and the unnormalizable ones are not written: with the
\* embedder and the store working, the ids written are exactly those of the
\* normalizable records.
C7_OnlyNormalizableIndexed ==
    (ixCall.op = "sync" /\ ixOut.raised = "" /\ ixOut.counts.failed = 0) =>
        ixOut.ids = NormalizableIds(ixCall.raws)

(***************************************************************************)
(* Knowledge-provider client                                               *)
(***************************************************************************)
\* C8: an attempt that fails with a transport error or a non-2xx, non-429
\* status is re-attempted, up to 3 attempts in total: the provider-API error
\* reaches the caller only after the third attempt.
C8_ErrorOnlyAfterThirdAttempt ==
    \A c \in Callers :
        (/\ cpc[c] = "done"
         /\ outcome[c] \in {"status_error", "transport_error"}
         /\ result[c] = "SolarWindsAPIError") => attempts[c] = MaxAttempts

PermitsInWindow(t) ==
    Cardinality({i \in DOMAIN granted : t <= granted[i] /\ granted[i] < t + WindowSeconds})

\* C9: at most max_requests timestamps are recorded within any rolling
\* 60-second window, and a call that found max_requests permits inside the
\* window is not permitted before the oldest of them is 60 seconds old.
C9_RateLimitHolds ==
    /\ \A i \in DOMAIN granted : PermitsInWindow(granted[i]) <= MaxRequests
    /\ \A c \in Callers :
          (blockedBy[c] # NoTime /\ grantAt[c] # NoTime) =>
              grantAt[c] >= blockedBy[c] + WindowSeconds

C9_Witness ==
    /\ Len(granted) > MaxRequests
    /\ \E c \in Callers :
          /\ blockedBy[c] # NoTime
          /\ grantAt[c] >= blockedBy[c] + WindowSeconds
    /\ \E i \in DOMAIN granted : PermitsInWindow(granted[i]) = MaxRequests

(***************************************************************************)
(* State manager with an unreachable store                                 *)
(***************************************************************************)
MgrUnreachable == ~mgrCall.client \/ ~mgrCall.up

\* C11: whenever the store is unreachable, at connect time or after a
\* successful connect, acquire_sync_lock reports the lock as granted,
\* get_last_sync_time returns absent, set_last_sync_time and
\* update_sync_stats write nothing, and none of them raises.
C11_DegradesWhenUnreachable ==
    MgrUnreachable =>
        /\ ~mgrRet.raised
        /\ mgrCall.op = "acquire_sync_lock" => mgrRet.ok
        /\ mgrCall.op = "get_last_sync_time" => mgrRet.time = NoTime
        /\ mgrCall.op \in {"set_last_sync_time", "update_sync_stats"} => ~mgrRet.wrote

(***************************************************************************)
(* Mock path of the sync                                                   *)
(***************************************************************************)
\* C12: with the knowledge provider unconfigured and mock data asked for, a
\* trigger_sync call that acquired the lock takes the mock path: unless the
\* mock indexing itself raises, it writes the statistics tagged mode "mock"
\* and returns status "success" tagged mode "mock".
C12_MockPathTaken ==
    \A p \in Procs :
        (/\ cfg \in {"shipped", "mock"}
         /\ Returned(p) /\ held[p]
         /\ res[p].reason # "mock sync error") =>
            (res[p] = Success("mock") /\ wrote[p] = "mock")

(***************************************************************************)
(* Embedding provider fallback                                             *)
(***************************************************************************)
EmbMiss == embCall.text # 0 /\ embCall.useCache /\ ~embCall.hit
EmbAlternate == IF embPrimary = "openai" THEN "local" ELSE "openai"
EmbAlternateKey == GetCacheKey(embCall.text, EmbAlternate)

\* C13: on a cache miss, when the primary provider fails and the alternate
\* succeeds, the alternate's vector is returned and cached under the
\* alternate's identity; when both fail, an embedding failure carrying the
\* primary provider's error is raised and the cache is left unchanged.
C13_FallbackAndFailure ==
    /\ (EmbMiss /\ embCall.primary \in ErrorTexts /\ embCall.fallback = "ok") =>
          /\ embRet = EmbReturn(VectorOf(EmbAlternate))
          /\ embPut.key = EmbAlternateKey
          /\ CacheGet(embCache, EmbAlternateKey) = VectorOf(EmbAlternate)
    /\ (EmbMiss /\ embCall.primary \in ErrorTexts /\ embCall.fallback \in ErrorTexts) =>
          /\ embRet = EmbRaise(embCall.primary)
          /\ embPut = EmbPut(0, FALSE)

C13_Witness ==
    /\ EmbMiss
    /\ embCall.primary = "e1"
    /\ embCall.fallback = "ok"
    /\ embRet = EmbReturn(VectorOf(EmbAlternate))
    /\ embPut = EmbPut(EmbAlternateKey, TRUE)
    /\ EmbAlternateKey \in KeysOf(embCache)

HitDomainError ==
    \/ apiReq.endpoint = "search" /\ ~apiReq.blank /\
          (apiReq.outcome = "op_fails" \/ (apiReq.outcome = "init_fails" /\ ~apiReq.ready))
    \/ apiReq.endpoint = "stats" /\ apiReq.ready /\ apiReq.outcome = "op_fails"
    \/ apiReq.endpoint = "sync-status" /\ apiReq.outcome = "op_fails"

\* C16: when GET /solutions/search, /solutions/stats or /solutions/sync-status
\* hits a classified domain error, the response is the structured JSON error
\* body with the error's own suggested status code (503 for a vector-store
\* error).
C16_DomainErrorKeepsItsStatus ==
    HitDomainError =>
        (apiResp.code = StatusVectorStoreError /\ apiResp.layout = "error_details_status")

\* C17: with debug mode disabled, no HTTP error response contains the text of
\* the underlying exception: the same request with another exception message
\* gets the same response.
C17_NoExceptionTextWithoutDebug ==
    (~debug /\ apiResp.code >= 400) =>
        /\ apiResp.text = ""
        /\ \A m \in Messages : ApiRespond([apiReq EXCEPT !.msg = m]) = apiResp

(***************************************************************************)
(* Vector store                                                            *)
(***************************************************************************)
\* the add just made names an id the collection already held
AddedExistingId ==
    /\ vsCall.op \in {"add_solution", "add_solutions_batch"}
    /\ \E i \in 1..Len(vsCall.recs) : vsCall.before[vsCall.recs[i].id] # 0

\* C18: adding a solution whose id is already in the index is an upsert with
\* last-write-wins semantics: after the add (single or batch) the index holds
\* for each added id the document of the last record added for it, which is
\* what get_solution_by_id returns.
C18_AddIsUpsert ==
    AddedExistingId =>
        /\ ~vsRet.raised
        /\ \A i \in 1..Len(vsCall.recs) :
             (\A j \in (i+1)..Len(vsCall.recs) : vsCall.recs[j].id # vsCall.recs[i].id) =>
                 CollectionGet(vsDocs, vsCall.recs[i].id) = vsCall.recs[i].version

(***************************************************************************)
(* Forced sync                                                             *)
(***************************************************************************)
\* C19: trigger_sync(force=True) forces a sync even if one is already in
\* progress: a forced call never returns "skipped" nor "failed" for want of
\* the lock, it runs the sync.
C19_ForcedCallRunsSync ==
    \A q \in Procs :
        (force[q] /\ Returned(q)) =>
            (res[q] # Skipped /\ res[q] # LockFailed /\ held[q])

(***************************************************************************)
(* Application lifespan                                                    *)
(***************************************************************************)
StartupSteps == <<"indexing_service.initialize", "llm_service.initialize", "sync_service.start">>
ShutdownSteps == <<"sync_service.stop", "llm_service.cleanup", "indexing_service.cleanup">>
AttemptedSteps == [k \in 1..Len(lifeLog) |-> lifeLog[k].step]

\* C20: startup attempts indexing initialization, LLM initialization and sync
\* start in that order, shutdown attempts sync stop, LLM cleanup and indexing
\* cleanup in that order, and a failing step never keeps a later one from
\* being attempted: the steps attempted so far are always a prefix of that
\* sequence, startup reaches the yield with all three attempted, shutdown
\* ends with all six attempted, and lifespan() is never left early.
C20_LifespanOrderBestEffort ==
    /\ AttemptedSteps = SubSeq(StartupSteps \o ShutdownSteps, 1, Len(lifeLog))
    /\ lifePc # "aborted"
    /\ lifePc = "yield" => AttemptedSteps = StartupSteps
    /\ lifePc = "end" => AttemptedSteps = StartupSteps \o ShutdownSteps
    /\ (lifePc \notin {"yield", "end"} /\ Len(lifeLog) < 6) =>
           lifePc = (StartupSteps \o ShutdownSteps)[Len(lifeLog) + 1]

\* the first step of startup and the first of shutdown raised; all six ran
C20_Witness ==
    /\ lifePc = "end"
    /\ Len(lifeLog) = 6
    /\ lifeLog[1].raised
    /\ lifeLog[4].raised

(***************************************************************************)
(* SyncService.stop                                                        *)
(***************************************************************************)
\* C21: when stop() has returned, no trigger_sync started earlier (by the
\* scheduler, by the initial sync task or by the API) is still running, and
\* none of them has left the sync lock in the store.
C21_StopWaitsForSyncs ==
    svcStop = "returned" =>
        /\ \A o \in Origins : svcTask[o] # "body"
        /\ svcLock = "free"

(***************************************************************************)
(* IndexingService.initialize / cleanup                                    *)
(***************************************************************************)
\* C22: initialize brings up the embedding service and then the vector
\* store, cleanup tears them down in the reverse order (vector store first,
\* then embedding service), and a call that repeats the previous one changes
\* nothing.
C22_OrderAndIdempotence ==
    /\ \A k \in 1..Len(bootHist) :
         /\ (bootHist[k].op = "initialize" /\ Len(bootHist[k].calls) = 2) =>
                bootHist[k].calls =
                    <<"embedding_service.initialize", "vector_store_service.connect">>
         /\ bootHist[k].op = "cleanup" =>
                bootHist[k].calls =
                    <<"vector_store_service.disconnect", "embedding_service.cleanup">>
    /\ \A k \in 2..Len(bootHist) :
         (/\ bootHist[k-1].op = bootHist[k].op
          /\ bootHist[k].op \in {"initialize", "cleanup"}
          /\ ~bootHist[k-1].raised
          /\ ~bootHist[k].raised) => bootHist[k].after = bootHist[k].before

(***************************************************************************)
(* fetch_all_solutions                                                     *)
(***************************************************************************)
AllRecords(n) == [k \in 1..n |-> k]

\* requests needed for n records in pages of b: the last page is the one
\* that reaches the reported total, or else the empty page past the end
RequestsNeeded(n, b, total) ==
    IF n = 0 THEN 1
    ELSE IF total THEN (n + b - 1) \div b
    ELSE ((n + b - 1) \div b) + 1

FaSafe ==
    /\ faPc = "returned" =>
          /\ faAll = AllRecords(faArgs.n)
          /\ faRequests = RequestsNeeded(faArgs.n, faArgs.batch, faArgs.total)
    /\ faPc = "raised" => faAll = <<>>
    /\ faPc = "loop" =>
          /\ faAll = AllRecords(Len(faAll))
          /\ faRequests < RequestsNeeded(faArgs.n, faArgs.batch, faArgs.total)

\* C23: against a provider holding n records served by limit / offset,
\* fetch_all_solutions terminates; when it returns it returns all n records,
\* each once and in page order, having stopped at the first empty page or as
\* soon as the reported total was reached; when a page request fails the
\* failure is propagated at once and no partial result is returned.
C23_FetchAllReturnsAll ==
    /\ []FaSafe
    /\ (faPc = "loop") ~> (faPc \in {"returned", "raised"})

\* a call has returned several pages' worth of records, total reported
C23_Witness ==
    /\ faPc = "returned"
    /\ faArgs.total
    /\ faArgs.batch = 2
    /\ faArgs.n = 2 * faArgs.batch
    /\ faRequests = 2

(***************************************************************************)
(* get_embeddings_batch                                                    *)
(***************************************************************************)
NoBlankText == \A i \in 1..Len(ebCall.texts) : ebCall.texts[i] # 0

\* the texts sent to the primary provider, over all slices, in order
RECURSIVE SentToPrimary(_)
SentToPrimary(sent) ==
    IF sent = <<>> THEN <<>>
    ELSE (IF Head(sent).prov = ebPrimary THEN Head(sent).texts ELSE <<>>)
            \o SentToPrimary(Tail(sent))

\* the texts of the call that were not found in the cache, in order
RECURSIVE Misses(_, _, _)
Misses(texts, hits, i) ==
    IF i > Len(texts) THEN <<>>
    ELSE (IF hits[i] THEN <<>> ELSE <<texts[i]>>) \o Misses(texts, hits, i + 1)

\* C24: for a list of texts none of which is empty, get_embeddings_batch
\* returns one vector per text, the vector at position i being an embedding
\* of the text at position i, taken from the cache when the text was found
\* there and computed by the primary or the fallback provider otherwise; the
\* texts sent to a provider are exactly the cache misses.
C24_BatchKeepsOrder ==
    (NoBlankText /\ ~ebRet.raised) =>
        /\ Len(ebRet.vecs) = Len(ebCall.texts)
        /\ Len(ebRet.hits) = Len(ebCall.texts)
        /\ \A i \in 1..Len(ebCall.texts) :
             /\ ebRet.vecs[i].text = ebCall.texts[i]
             /\ ebRet.vecs[i].prov \in EmbProviders
             /\ ebRet.hits[i] => ebRet.vecs[i].prov = ebPrimary
        /\ SentToPrimary(ebRet.sent) = Misses(ebCall.texts, ebRet.hits, 1)
        /\ \A k \in 1..Len(ebRet.sent) :
             ebRet.sent[k].prov # ebPrimary =>
                (k > 1 /\ ebRet.sent[k].texts = ebRet.sent[k-1].texts)

\* a slice with a miss before a hit: the hit is appended first and the sort
\* puts it back in place
C24_Witness ==
    /\ ~ebRet.raised
    /\ ebCall.useCache
    /\ ebCall.size = 2
    /\ ebCall.texts = <<1, 2>>
    /\ ebRet.hits = <<FALSE, TRUE>>
    /\ Len(ebRet.sent) = 1
    /\ ebRet.sent[1].texts = <<1>>

\* C28: all the embeddings one get_embeddings_batch call hands to the
\* indexing service, which writes them to the vector store as they are, come
\* from the same embedding provider, whatever the primary provider's
\* failures and the mix of cache hits and misses.
C28_OneProviderPerBatch ==
    ~ebRet.raised =>
        \A i, j \in 1..Len(ebRet.vecs) : ebRet.vecs[i].prov = ebRet.vecs[j].prov


(***************************************************************************)
(* Claims about the LLM retry.                                             *)
(***************************************************************************)
\* the call in flight made at least one attempt and every attempt failed
AllAttemptsFailed == llmPc = "raised" /\ llmAttempt >= 1

\* C25: when every attempt of OpenRouterProvider.generate_response fails,
\* exactly 3 attempts were made and the exception that reaches the caller
\* of LLMService.generate_response is an LLM-provider error.
C25_ExhaustedRetryRaisesProviderError ==
    AllAttemptsFailed =>
        /\ llmAttempt = StopAfterAttempt
        /\ Len(llmLog) = StopAfterAttempt
        /\ llmErr.kind = "LLMProviderError"


(***************************************************************************)
(* Claims about what a sync records when indexing fails.                   *)
(***************************************************************************)
\* call p takes the step of lines 331-358 with an index_solutions_batch that
\* reports an error for the batch: s records skipped, the others failed
IndexErrorStep(p, s) ==
    LET c == IndexCounts(fetched[p].k, s, "error") IN
    /\ pc[p] = "index"
    /\ pc'[p] = "release"
    /\ s < fetched[p].k
    /\ c.indexed = 0
    /\ stats' = UpdateSyncStats(stats,
                  SuccessStats(fetched[p].n, c.indexed, c.failed + c.skipped,
                               now - startT[p]), now)

\* C26: when index_solutions_batch reports an error for the batch
\* (indexed = 0), trigger_sync does not return status "success" and does not
\* move last_sync_time.
C26_TimestampOnlyAfterIndexing ==
    [][\A p \in Procs : \A s \in 0..MaxFetched :
         IndexErrorStep(p, s) =>
             /\ pend'[p].status # "success"
             /\ lastSync' = lastSync]_vars


(***************************************************************************)
(* Claims about who deletes the sync lock.                                 *)
(***************************************************************************)
\* C27: a call's release_sync_lock never deletes a lock that another call's
\* acquire created and that is still in the store, also when a sync outlives
\* the lock's expiry.
C27_ReleaseDeletesOwnLockOnly ==
    lkDel.owner # 0 => lkDel.owner = lkDel.by


(***************************************************************************)
(* Claims about concurrent lazy initialization.                            *)
(***************************************************************************)
\* C29: with several requests reaching the uninitialized indexing service,
\* the initialization body (model load, vector-store connect) is executed at
\* most once, and a request uses the service only after the initialization
\* has completed.
C29_LazyInitRunsOnce ==
    /\ lzBodies <= 1
    /\ lzLoads <= 1
    /\ lzConnects <= 1
    /\ \A r \in FirstRequests : lzPc[r] \in {"use", "done"} => lzIxInit


(***************************************************************************)
(* Claims about the counts of a batch.                                     *)
(***************************************************************************)
\* C30: the counts index_solutions_batch returns account for every input
\* record exactly once: indexed + failed + skipped is the number of records
\* passed in, also when text processing dropped a record.
C30_CountsCoverTheBatch ==
    (ixCall.op = "batch" /\ ixOut.raised = "") =>
        ixOut.counts.indexed + ixOut.counts.failed + ixOut.counts.skipped
            = Len(ixCall.recs)

====
